---------------------------- MODULE Spec2Model ----------------------------
(***************************************************************************)
(* A model of the anomaly-driven trading-decision pipeline of the          *)
(* repository: the Laplacian Q-learning agent (laplacian_rl/mod.rs), the   *)
(* temporal anomaly detector and its baseline statistics (anomaly/mod.rs), *)
(* the synthetic data generator (synthetic/mod.rs) and the time-symmetric  *)
(* engine (core/engine.rs).                                                *)
(*                                                                         *)
(* f64 values are modelled exactly: a finite value is a normalised         *)
(* rational n/d, and the three IEEE specials (NaN, +inf, -inf) are values  *)
(* of their own, produced by the divisions the code performs.              *)
(***************************************************************************)
EXTENDS Integers, Sequences, FiniteSets, TLC

(***************************************************************************)
(* f64 arithmetic                                                          *)
(***************************************************************************)
Abs(i) == IF i < 0 THEN -i ELSE i

RECURSIVE Gcd(_, _)
Gcd(a, b) == IF b = 0 THEN a ELSE Gcd(b, a % b)

Lcm(a, b) == (a \div Gcd(a, b)) * b

NaN  == [k |-> "nan",  n |-> 0, d |-> 1]
PInf == [k |-> "pinf", n |-> 0, d |-> 1]
NInf == [k |-> "ninf", n |-> 0, d |-> 1]

\* The finite value n/d (d # 0), normalised: positive denominator, lowest terms.
Rat(n, d) ==
    LET s == IF d < 0 THEN -1 ELSE 1
        g == Gcd(Abs(n), Abs(d))
    IN  [k |-> "num", n |-> (s * n) \div g, d |-> (s * d) \div g]

Num(i) == Rat(i, 1)
Zero == Num(0)
One  == Num(1)

IsNum(a) == a.k = "num"
IsNaN(a) == a.k = "nan"
IsInf(a) == a.k \in {"pinf", "ninf"}

\* -1, 0, 1: the sign of a non-NaN value.
Sign(a) ==
    CASE a.k = "pinf" -> 1
      [] a.k = "ninf" -> -1
      [] a.k = "num"  -> (IF a.n > 0 THEN 1 ELSE IF a.n < 0 THEN -1 ELSE 0)
      [] OTHER        -> 0

Signed(s) == IF s > 0 THEN PInf ELSE IF s < 0 THEN NInf ELSE NaN

FNeg(a) ==
    CASE a.k = "num"  -> Rat(-a.n, a.d)
      [] a.k = "pinf" -> NInf
      [] a.k = "ninf" -> PInf
      [] OTHER        -> NaN

FAdd(a, b) ==
    CASE IsNaN(a) \/ IsNaN(b) -> NaN
      [] IsNum(a) /\ IsNum(b) ->
            LET l == Lcm(a.d, b.d)
            IN  Rat(a.n * (l \div a.d) + b.n * (l \div b.d), l)
      [] IsInf(a) /\ IsInf(b) -> (IF a.k = b.k THEN a ELSE NaN)
      [] IsInf(a)             -> a
      [] OTHER                -> b

FSub(a, b) == FAdd(a, FNeg(b))

FMul(a, b) ==
    CASE IsNaN(a) \/ IsNaN(b) -> NaN
      [] IsNum(a) /\ IsNum(b) ->
            LET g1 == Gcd(Abs(a.n), b.d)
                g2 == Gcd(Abs(b.n), a.d)
            IN  Rat((a.n \div g1) * (b.n \div g2), (a.d \div g2) * (b.d \div g1))
      [] OTHER                -> Signed(Sign(a) * Sign(b))

\* IEEE division: x/0 is an infinity, 0/0 and inf/inf are NaN.
FDiv(a, b) ==
    CASE IsNaN(a) \/ IsNaN(b) -> NaN
      [] IsInf(a) /\ IsInf(b) -> NaN
      [] IsInf(a)             -> Signed(Sign(a) * (IF Sign(b) < 0 THEN -1 ELSE 1))
      [] IsInf(b)             -> Zero
      [] b.n = 0              -> Signed(Sign(a))
      [] OTHER                -> FMul(a, Rat(b.d, b.n))

FAbs(a) ==
    CASE a.k = "num"  -> Rat(Abs(a.n), a.d)
      [] a.k = "nan"  -> NaN
      [] OTHER        -> PInf

\* Comparisons: every comparison with NaN is false.
FLt(a, b) ==
    CASE IsNaN(a) \/ IsNaN(b) -> FALSE
      [] IsNum(a) /\ IsNum(b) ->
            LET l == Lcm(a.d, b.d)
            IN  a.n * (l \div a.d) < b.n * (l \div b.d)
      [] a.k = b.k            -> FALSE
      [] OTHER                -> a.k = "ninf" \/ b.k = "pinf"

FGt(a, b) == FLt(b, a)
FLe(a, b) == (~IsNaN(a)) /\ (~IsNaN(b)) /\ ~FLt(b, a)
FGe(a, b) == FLe(b, a)

\* f64::min and f64::max: when one operand is NaN the other is returned.
FMin(a, b) == IF IsNaN(a) THEN b ELSE IF IsNaN(b) THEN a ELSE IF FLt(b, a) THEN b ELSE a
FMax(a, b) == IF IsNaN(a) THEN b ELSE IF IsNaN(b) THEN a ELSE IF FLt(a, b) THEN b ELSE a

\* The sum of a sequence of floats, left to right from 0.0 (Iterator::sum).
RECURSIVE FSum(_)
FSum(s) == IF s = <<>> THEN Zero ELSE FAdd(FSum(SubSeq(s, 1, Len(s) - 1)), s[Len(s)])


VARIABLES
    \* LaplacianQLearningAgent
    q_table,            \* HashMap<StateActionPair, f64>: a function on the stored pairs
    experience_buffer,  \* VecDeque<Experience>, front first
    config,             \* LaplacianQLearningConfig (exploration_rate is the mutable field)
    first_key,          \* the key that debruijn_graph.nodes.keys() yields first
    inserted,           \* history: every experience handed to add_experience, in order
    \* SyntheticDataGenerator
    generator,          \* its config and historical_anchor, or Absent
    \* TemporalAnomalyDetector
    detector,           \* its config, baseline, expected symmetries and history, or Absent
    \* TimeSymmetricEngine
    engine,             \* its config, initialized flag and symmetry_cache, or Absent
    mdp,                \* the environment the agent is trained against, or Absent
    \* TemporalExtrapolator
    extrapolator,       \* its historical_patterns, or Absent
    \* CurrencyPairState
    pair,               \* is_active, synthetic_data, recent_anomalies and the anomaly
                        \* counter; its detector and agent are the ones above; or Absent
    last,               \* history: the last operation, its inputs and the state before it
    steps               \* operations performed so far

agent_vars == <<q_table, experience_buffer, config, first_key, inserted>>

\* The state of the other components of the pipeline and of the environment.
pipeline_vars == <<generator, detector, engine, mdp, extrapolator, pair>>

vars == <<q_table, experience_buffer, config, first_key, inserted, generator, detector,
         engine, mdp, extrapolator, pair, last, steps>>

(***************************************************************************)
(* Bounds of the model                                                     *)
(***************************************************************************)
MaxSteps == 3        \* mutating operations per behaviour of the agent
MaxBuf   == 2        \* largest configured buffer_size and batch_size

(***************************************************************************)
(* laplacian_rl: TradingAction, De Bruijn graph, Laplacian                 *)
(***************************************************************************)
Buy(size)     == [t |-> "Buy",  size |-> size]
Sell(size)    == [t |-> "Sell", size |-> size]
Hold          == [t |-> "Hold", size |-> 0]
ClosePosition == [t |-> "ClosePosition", size |-> 0]

StateActionPair(state_id, action) == [state_id |-> state_id, action |-> action]

\* DeBruijnGraph::new(4, 3)
alphabet_size   == 4
sequence_length == 3

RECURSIVE Pow(_, _)
Pow(b, e) == IF e = 0 THEN 1 ELSE b * Pow(b, e - 1)

\* index_to_sequence: the digits of index, least significant first.
RECURSIVE index_to_sequence(_, _, _)
index_to_sequence(index, alphabet, length) ==
    IF length = 0 THEN <<>>
    ELSE <<index % alphabet>> \o index_to_sequence(index \div alphabet, alphabet, length - 1)

\* get_successor_sequence: drop the first symbol, push the new one.
get_successor_sequence(sequence, new_symbol) == Append(Tail(sequence), new_symbol)

RECURSIVE SeqToString(_)
SeqToString(sequence) ==
    IF sequence = <<>> THEN "" ELSE ToString(Head(sequence)) \o SeqToString(Tail(sequence))

\* format!("node_{}", sequence)
node_id(sequence) == "node_" \o SeqToString(sequence)

\* A variant of the edges of a node whose probabilities are 1/(alphabet_size + 1).
node_edges_thin(sequence) ==
    [ symbol \in 1 .. alphabet_size |->
        [ from_node |-> node_id(sequence),
          to_node |-> node_id(get_successor_sequence(sequence, symbol - 1)),
          transition_probability |-> Rat(1, alphabet_size + 1) ] ]

\* The edges pushed for one node: one per symbol, each of probability 1/alphabet_size.
node_edges(sequence) ==
    [ symbol \in 1 .. alphabet_size |->
        [ from_node |-> node_id(sequence),
          to_node |-> node_id(get_successor_sequence(sequence, symbol - 1)),
          transition_probability |-> Rat(1, alphabet_size) ] ]

\* The edges map after the first `count` iterations of the loop of DeBruijnGraph::new.
RECURSIVE edges_after(_)
edges_after(count) ==
    IF count = 0 THEN [id \in {} |-> <<>>]
    ELSE LET sequence == index_to_sequence(count - 1, alphabet_size, sequence_length)
         IN  (node_id(sequence) :> node_edges(sequence)) @@ edges_after(count - 1)

\* DeBruijnGraph.edges: node id -> its edges, and the keys of DeBruijnGraph.nodes
\* (every iteration inserts the same key into both maps).
graph_edges == edges_after(Pow(alphabet_size, sequence_length))

graph_nodes == DOMAIN graph_edges

\* compute_graph_laplacian, diagonal entry of a node: degree[i], the sum of the
\* transition probabilities of the node's edges whose target is a node of the graph.
RECURSIVE degree_of(_, _)
degree_of(edges, upto) ==
    IF upto = 0 THEN Zero
    ELSE LET rest == degree_of(edges, upto - 1)
         IN  IF edges[upto].to_node \in DOMAIN graph_edges
             THEN FAdd(rest, edges[upto].transition_probability)
             ELSE rest

laplacian_diagonal ==
    [ id \in graph_nodes |-> degree_of(graph_edges[id], alphabet_size) ]

\* compute_laplacian_attention: the state's position among the node keys, node 0
\* (the first key) when the state is no node of the graph.
compute_laplacian_attention(state_id, first) ==
    LET node == IF state_id \in graph_nodes THEN state_id ELSE first
    IN  FAbs(laplacian_diagonal[node])

(***************************************************************************)
(* laplacian_rl: action selection                                          *)
(***************************************************************************)
\* A variant of get_possible_actions that offers the larger size at every severity.
get_possible_actions_always_large(anomaly) ==
    CASE anomaly.anomaly_type = "SymmetryBreakdown" ->
            IF FLt(anomaly.actual_strength, anomaly.expected_strength)
            THEN <<Hold, Sell(10), Sell(20)>>
            ELSE <<Hold, Buy(10), Buy(20)>>
      [] anomaly.anomaly_type = "VolatilitySpike"  -> <<Hold, ClosePosition>>
      [] anomaly.anomaly_type = "PatternInversion" -> <<Hold, Buy(15), Sell(15)>>
      [] OTHER                                     -> <<Hold, Buy(10), Sell(10)>>

\* get_possible_actions: Hold, then the actions the anomaly's type and severity add.
get_possible_actions(anomaly) ==
    LET big == anomaly.severity \in {"High", "Critical"}
    IN  CASE anomaly.anomaly_type = "SymmetryBreakdown" ->
                IF FLt(anomaly.actual_strength, anomaly.expected_strength)
                THEN <<Hold, Sell(10)>> \o (IF big THEN <<Sell(20)>> ELSE <<>>)
                ELSE <<Hold, Buy(10)>> \o (IF big THEN <<Buy(20)>> ELSE <<>>)
          [] anomaly.anomaly_type = "VolatilitySpike"  -> <<Hold, ClosePosition>>
          [] anomaly.anomaly_type = "PatternInversion" -> <<Hold, Buy(15), Sell(15)>>
          [] OTHER                                     -> <<Hold, Buy(10), Sell(10)>>

\* (x as usize) for a finite x >= 0: truncation.
AsUsize(x) == x.n \div x.d

\* random_action: index = (rand * len) as usize, rand drawn from [0, 1).
random_action(anomaly, rand) ==
    LET actions == get_possible_actions(anomaly)
        index   == AsUsize(FMul(rand, Num(Len(actions))))
    IN  actions[index + 1]

q_get(q, key) == IF key \in DOMAIN q THEN q[key] ELSE Zero

\* A variant of the greedy loop that replaces the best action on an equal value too.
RECURSIVE greedy_from_keeps_last_tie(_, _, _, _, _, _, _)
greedy_from_keeps_last_tie(q, cfg, first, state_id, actions, i, best) ==
    IF i > Len(actions) THEN best.action
    ELSE LET base_q_value     == q_get(q, StateActionPair(state_id, actions[i]))
             attention_weight == compute_laplacian_attention(state_id, first)
             weighted_q_value ==
                 FMul(base_q_value, FAdd(One, FMul(cfg.attention_weight, attention_weight)))
         IN  IF FGe(weighted_q_value, best.q)
             THEN greedy_from_keeps_last_tie(q, cfg, first, state_id, actions, i + 1,
                                             [action |-> actions[i], q |-> weighted_q_value])
             ELSE greedy_from_keeps_last_tie(q, cfg, first, state_id, actions, i + 1, best)

\* The greedy loop of choose_action over possible_actions[i ..], carrying
\* (best_action, best_q_value).
RECURSIVE greedy_from(_, _, _, _, _, _, _)
greedy_from(q, cfg, first, state_id, actions, i, best) ==
    IF i > Len(actions) THEN best.action
    ELSE LET base_q_value     == q_get(q, StateActionPair(state_id, actions[i]))
             attention_weight == compute_laplacian_attention(state_id, first)
             weighted_q_value ==
                 FMul(base_q_value, FAdd(One, FMul(cfg.attention_weight, attention_weight)))
         IN  IF FGt(weighted_q_value, best.q)
             THEN greedy_from(q, cfg, first, state_id, actions, i + 1,
                              [action |-> actions[i], q |-> weighted_q_value])
             ELSE greedy_from(q, cfg, first, state_id, actions, i + 1, best)

\* choose_action: explore when rand1 < exploration_rate, else the greedy choice.
choose_action(q, cfg, first, state_id, anomaly, rand1, rand2) ==
    IF FLt(rand1, cfg.exploration_rate)
    THEN random_action(anomaly, rand2)
    ELSE LET possible_actions == get_possible_actions(anomaly)
         IN  greedy_from(q, cfg, first, state_id, possible_actions, 1,
                         [action |-> possible_actions[1], q |-> NInf])

(***************************************************************************)
(* laplacian_rl: Q-value update, replay buffer, training                   *)
(***************************************************************************)
\* compute_pme_correction: real-space term plus a tenth of it.
compute_pme_correction(action) ==
    LET real_space_contribution ==
            CASE action.t = "Buy"  -> FMul(Num(action.size), Rat(1, 100))
              [] action.t = "Sell" -> FMul(FNeg(Num(action.size)), Rat(1, 100))
              [] OTHER             -> Zero
        reciprocal_space_contribution == FMul(real_space_contribution, Rat(1, 10))
    IN  FAdd(real_space_contribution, reciprocal_space_contribution)

\* fold(f64::NEG_INFINITY, f64::max) over a set of values.
RECURSIVE fold_max(_, _)
fold_max(values, acc) ==
    IF values = {} THEN acc
    ELSE LET v == CHOOSE x \in values : TRUE
         IN  fold_max(values \ {v}, FMax(acc, v))

\* get_max_q_value: the largest stored value of the state's entries, then .max(0.0).
get_max_q_value(q, state) ==
    LET stored == { q[sa] : sa \in { k \in DOMAIN q : k.state_id = state } }
    IN  FMax(fold_max(stored, NInf), Zero)

\* A variant of the next-state term that looks the next state up even when done.
next_q_max_ignoring_done(q, next_state, done) == get_max_q_value(q, next_state)

\* The next-state term of update_q_value: 0.0 when done.
next_q_max(q, next_state, done) == IF done THEN Zero ELSE get_max_q_value(q, next_state)

\* update_q_value: the table after the update of (state, action).
update_q_value(q, cfg, first, state, action, reward, next_state, done) ==
    LET state_action     == StateActionPair(state, action)
        current_q        == q_get(q, state_action)
        next_max         == next_q_max(q, next_state, done)
        pme_correction   == compute_pme_correction(action)
        attention_weight == compute_laplacian_attention(state, first)
        target_q         == FAdd(FAdd(reward, FMul(cfg.discount_factor, next_max)),
                                 pme_correction)
        attention_factor == FAdd(One, FMul(cfg.attention_weight, attention_weight))
        new_q            == FAdd(current_q,
                                 FMul(FMul(cfg.learning_rate, attention_factor),
                                      FSub(target_q, current_q)))
    IN  [ k \in (DOMAIN q) \cup {state_action} |->
            IF k = state_action THEN new_q ELSE q[k] ]

\* A variant of add_experience that evicts only once the buffer is over capacity.
add_experience_evicts_late(buffer, buffer_size, experience) ==
    LET kept == IF Len(buffer) > buffer_size /\ buffer # <<>>
                THEN Tail(buffer) ELSE buffer
    IN  Append(kept, experience)

\* add_experience: evict the front when the buffer is full, then push at the back.
add_experience(buffer, buffer_size, experience) ==
    LET kept == IF Len(buffer) >= buffer_size /\ buffer # <<>>
                THEN Tail(buffer) ELSE buffer
    IN  Append(kept, experience)

\* The replay loop of train_batch: update_q_value on each sampled experience in turn.
RECURSIVE replay(_, _, _, _)
replay(q, cfg, first, experiences) ==
    IF experiences = <<>> THEN q
    ELSE LET e == Head(experiences)
         IN  replay(update_q_value(q, cfg, first, e.state, e.action, e.reward,
                                   e.next_state, e.done),
                    cfg, first, Tail(experiences))

\* A variant of the early return that also skips a buffer of exactly batch_size.
train_batch_skips_full(buffer, cfg) == Len(buffer) <= cfg.batch_size

\* train_batch, early return: fewer experiences than batch_size.
train_batch_skips(buffer, cfg) == Len(buffer) < cfg.batch_size

\* train_batch, the decayed exploration rate, floored at min_epsilon.
decayed_exploration_rate(cfg) ==
    FMax(FMul(cfg.exploration_rate, cfg.epsilon_decay), cfg.min_epsilon)

(***************************************************************************)
(* The agent's inputs                                                      *)
(***************************************************************************)
Experience(state, action, reward, next_state, done) ==
    [state |-> state, action |-> action, reward |-> reward,
     next_state |-> next_state, done |-> done]

Experiences ==
    { Experience("s_a", Buy(10), One, "s_b", FALSE),
      Experience("s_b", Hold, Num(-1), "s_a", FALSE),
      Experience("s_a", Sell(20), Rat(1, 2), "node_000", TRUE),
      Experience("node_000", ClosePosition, One, "s_a", FALSE) }

StateIds == {"s_a", "s_b", "node_000"}

Severities == {"Low", "Medium", "High", "Critical"}

AnomalyTypes ==
    {"SymmetryBreakdown", "CycleDisruption", "VolatilitySpike", "PatternInversion",
     "CorrelationBreakdown", "NovelPattern"}

\* The fields of a DetectedAnomaly that the agent reads.
AgentAnomaly(type, expected, actual, severity) ==
    [anomaly_type |-> type, expected_strength |-> expected,
     actual_strength |-> actual, severity |-> severity]

AgentAnomalies ==
    { AgentAnomaly("SymmetryBreakdown", Rat(1, 2), a, sev) :
        a \in {Zero, One}, sev \in Severities }
    \cup { AgentAnomaly(t, Zero, Zero, sev) :
        t \in AnomalyTypes \ {"SymmetryBreakdown"}, sev \in {"Low", "Critical"} }

\* Draws of rand::random::<f64>(), which lies in [0, 1).
RandDraws == {Zero, Rat(1, 2), Rat(99, 100)}

\* The numeric fields of LaplacianQLearningConfig: two settings, with and without
\* attention, whose rates are dyadic so that the exact values stay small.
AttentiveRates ==
    [learning_rate |-> Rat(1, 4), discount_factor |-> Rat(1, 2),
     exploration_rate |-> Rat(1, 2), epsilon_decay |-> Rat(3, 4),
     min_epsilon |-> Rat(1, 8), attention_weight |-> Rat(1, 2)]

PlainRates ==
    [learning_rate |-> Rat(1, 2), discount_factor |-> Rat(1, 2),
     exploration_rate |-> One, epsilon_decay |-> Rat(1, 2),
     min_epsilon |-> Rat(2, 5), attention_weight |-> Zero]

AgentConfig(rates, buffer_size, batch_size) ==
    [learning_rate |-> rates.learning_rate, discount_factor |-> rates.discount_factor,
     exploration_rate |-> rates.exploration_rate, epsilon_decay |-> rates.epsilon_decay,
     min_epsilon |-> rates.min_epsilon, attention_weight |-> rates.attention_weight,
     buffer_size |-> buffer_size, batch_size |-> batch_size]

AgentConfigs ==
    { AgentConfig(r, n, b) :
        r \in {AttentiveRates, PlainRates}, n \in 0 .. MaxBuf, b \in 0 .. MaxBuf }

EmptyTable == [k \in {} |-> Zero]

NoOp == [kind |-> "none"]

(***************************************************************************)
(* The agent's operations                                                  *)
(***************************************************************************)
\* A component that was not constructed.
Absent == [kind |-> "none"]

\* LaplacianQLearningAgent::new: empty table, empty buffer, the graph built.
NewAgent(configs) ==
    /\ config \in configs
    /\ q_table = EmptyTable
    /\ experience_buffer = <<>>
    /\ inserted = <<>>

Init ==
    /\ NewAgent(AgentConfigs)
    /\ last = NoOp
    /\ steps = 0
    /\ first_key \in {"node_000", "node_321"}
    /\ generator = Absent
    /\ detector = Absent
    /\ engine = Absent
    /\ mdp = Absent
    /\ extrapolator = Absent
    /\ pair = Absent

Before == [q_table |-> q_table, experience_buffer |-> experience_buffer, config |-> config]

AddExperience(e) ==
    /\ steps < MaxSteps
    /\ experience_buffer' = add_experience(experience_buffer, config.buffer_size, e)
    /\ inserted' = Append(inserted, e)
    /\ last' = [kind |-> "add_experience", experience |-> e, before |-> Before]
    /\ steps' = steps + 1
    /\ UNCHANGED <<q_table, config, first_key, pipeline_vars>>

UpdateQValue(e) ==
    /\ steps < MaxSteps
    /\ q_table' = update_q_value(q_table, config, first_key,
                                 e.state, e.action, e.reward, e.next_state, e.done)
    /\ last' = [kind |-> "update_q_value", experience |-> e, before |-> Before]
    /\ steps' = steps + 1
    /\ UNCHANGED <<experience_buffer, config, first_key, inserted, pipeline_vars>>

TrainBatch ==
    /\ steps < MaxSteps
    /\ steps' = steps + 1
    /\ UNCHANGED pipeline_vars
    /\ IF train_batch_skips(experience_buffer, config)
       THEN /\ last' = [kind |-> "train_batch", skipped |-> TRUE, samples |-> <<>>,
                        before |-> Before]
            /\ UNCHANGED agent_vars
       ELSE \E batch_indices \in [1 .. config.batch_size -> 1 .. Len(experience_buffer)] :
                LET experiences == [i \in 1 .. config.batch_size |->
                                        experience_buffer[batch_indices[i]]]
                IN  /\ q_table' = replay(q_table, config, first_key, experiences)
                    /\ config' = [config EXCEPT
                                    !.exploration_rate = decayed_exploration_rate(config)]
                    /\ last' = [kind |-> "train_batch", skipped |-> FALSE,
                                samples |-> experiences, before |-> Before]
                    /\ UNCHANGED <<experience_buffer, first_key, inserted>>

\* choose_action reads the agent and changes nothing.
ChooseAction(state_id, anomaly, rand1, rand2) ==
    /\ UNCHANGED steps
    /\ last' = [kind |-> "choose_action", state_id |-> state_id, anomaly |-> anomaly,
                explored |-> FLt(rand1, config.exploration_rate),
                result |-> choose_action(q_table, config, first_key, state_id, anomaly,
                                         rand1, rand2),
                before |-> Before]
    /\ UNCHANGED <<agent_vars, pipeline_vars>>

\* The agent under its mutating operations.
Next ==
    \/ \E e \in Experiences : AddExperience(e)
    \/ \E e \in Experiences : UpdateQValue(e)
    \/ TrainBatch

Spec == Init /\ [][Next]_vars

\* The agent under Q-value updates and action selection. As in the trading loop
\* (bin/anomaly_trader.rs), a choice is followed by an update before the next one.
NextChoose ==
    \/ \E e \in Experiences : UpdateQValue(e)
    \/ /\ last.kind # "choose_action"
       /\ \E state_id \in StateIds, anomaly \in AgentAnomalies, rand1, rand2 \in RandDraws :
            ChooseAction(state_id, anomaly, rand1, rand2)

\* buffer_size and batch_size are read by neither operation: one value of each.
InitChoose == Init /\ config.buffer_size = 0 /\ config.batch_size = 0

SpecChoose == InitChoose /\ [][NextChoose]_vars

(***************************************************************************)
(* Properties of the agent                                                 *)
(***************************************************************************)
Min(a, b) == IF a < b THEN a ELSE b

\* C1: with buffer_size = N >= 1, after any calls the replay buffer holds the
\* min(inserted, N) most recently inserted experiences, in insertion order.
C1_BufferHoldsMostRecent ==
    config.buffer_size >= 1 =>
        LET total == Len(inserted)
            held  == Min(total, config.buffer_size)
        IN  /\ Len(experience_buffer) = held
            /\ experience_buffer = SubSeq(inserted, total - held + 1, total)

\* C1 witness: a buffer of capacity 2 after a third, different, insertion.
C1_Witness ==
    /\ config.buffer_size = 2
    /\ Len(inserted) = 3
    /\ inserted[1] # inserted[2]
    /\ experience_buffer = <<inserted[2], inserted[3]>>

\* The correction the claim describes: proportional to the action size, positive
\* for Buy, negative for Sell, zero otherwise.
ClaimedCorrection(action) ==
    CASE action.t = "Buy"  -> Rat(11 * action.size, 1000)
      [] action.t = "Sell" -> Rat(-11 * action.size, 1000)
      [] OTHER             -> Zero

ClaimedNewQ(cfg, first, e, old_q, next_max) ==
    FAdd(old_q,
         FMul(FMul(cfg.learning_rate,
                   FAdd(One, FMul(cfg.attention_weight,
                                  compute_laplacian_attention(e.state, first)))),
              FSub(FAdd(FAdd(e.reward, FMul(cfg.discount_factor, next_max)),
                        ClaimedCorrection(e.action)),
                   old_q)))

\* C3: update_q_value stores old_Q + lr * (1 + attention_weight * attention) *
\* (reward + discount * next_max + correction - old_Q) for (state, action), with
\* next_max = 0 when done (otherwise 0 or a stored value of next_state), and changes
\* no other entry, nor the replay buffer or the exploration rate.
C3_UpdateStoresBellmanValue ==
    last.kind = "update_q_value" =>
        LET e      == last.experience
            before == last.before
            key    == StateActionPair(e.state, e.action)
            old_q  == IF key \in DOMAIN before.q_table THEN before.q_table[key] ELSE Zero
            nexts  == IF e.done THEN {Zero}
                      ELSE {Zero} \cup { before.q_table[k] :
                                k \in { x \in DOMAIN before.q_table :
                                            x.state_id = e.next_state } }
        IN  /\ DOMAIN q_table = (DOMAIN before.q_table) \cup {key}
            /\ \E next_max \in nexts :
                    q_table[key] = ClaimedNewQ(before.config, first_key, e, old_q, next_max)
            /\ \A k \in (DOMAIN before.q_table) \ {key} : q_table[k] = before.q_table[k]
            /\ experience_buffer = before.experience_buffer
            /\ config = before.config

\* C3 witness: a terminal update of a pair whose next state has a stored, non-zero
\* value, so that the done case shows.
C3_Witness ==
    /\ last.kind = "update_q_value"
    /\ last.experience.done
    /\ \E k \in DOMAIN last.before.q_table :
            /\ k.state_id = last.experience.next_state
            /\ FGt(last.before.q_table[k], Zero)
    /\ FGt(config.attention_weight, Zero)

\* C5: train_batch changes nothing when the buffer holds fewer than batch_size
\* experiences; otherwise it replays batch_size buffer entries through
\* update_q_value, leaves the buffer alone and sets exploration_rate to
\* max(exploration_rate * epsilon_decay, min_epsilon), which is >= min_epsilon.
C5_TrainBatch ==
    last.kind = "train_batch" =>
        LET before  == last.before
            cfg     == before.config
            decayed == FMul(cfg.exploration_rate, cfg.epsilon_decay)
        IN  IF Len(before.experience_buffer) < cfg.batch_size
            THEN /\ q_table = before.q_table
                 /\ experience_buffer = before.experience_buffer
                 /\ config = cfg
            ELSE /\ Len(last.samples) = cfg.batch_size
                 /\ \A i \in 1 .. Len(last.samples) :
                        \E j \in 1 .. Len(before.experience_buffer) :
                            last.samples[i] = before.experience_buffer[j]
                 /\ q_table = replay(before.q_table, cfg, first_key, last.samples)
                 /\ experience_buffer = before.experience_buffer
                 /\ config = [cfg EXCEPT !.exploration_rate =
                                IF FLt(decayed, cfg.min_epsilon)
                                THEN cfg.min_epsilon ELSE decayed]
                 /\ FGe(config.exploration_rate, config.min_epsilon)

\* C5 witness: a training step that replayed two experiences and hit the floor.
C5_Witness ==
    /\ last.kind = "train_batch"
    /\ Len(last.samples) = 2
    /\ q_table # last.before.q_table
    /\ config.exploration_rate # last.before.config.exploration_rate

\* C5 witness of the other case: a skipped training step on a non-empty buffer.
C5_WitnessSkipped ==
    /\ last.kind = "train_batch"
    /\ last.before.experience_buffer # <<>>
    /\ Len(last.before.experience_buffer) < config.batch_size

Range(f) == { f[i] : i \in DOMAIN f }

\* C6: choose_action returns an action of the anomaly's action set; Hold is always
\* in the set, ClosePosition only for a VolatilitySpike, a Buy and a Sell for a
\* PatternInversion, and size 20 for a SymmetryBreakdown only at severity High or
\* Critical.
C6_ChosenActionIsOffered ==
    last.kind = "choose_action" =>
        LET anomaly == last.anomaly
            offered == Range(get_possible_actions(anomaly))
        IN  /\ last.result \in offered
            /\ Hold \in offered
            /\ ClosePosition \in offered => anomaly.anomaly_type = "VolatilitySpike"
            /\ anomaly.anomaly_type = "PatternInversion" =>
                    /\ \E a \in offered : a.t = "Buy"
                    /\ \E a \in offered : a.t = "Sell"
            /\ anomaly.anomaly_type = "SymmetryBreakdown" =>
                    ((\E a \in offered : a.size = 20) =>
                        anomaly.severity \in {"High", "Critical"})

\* C6 witness: a greedy choice, on a stored positive Q-value, of the larger Sell.
C6_Witness ==
    /\ last.kind = "choose_action"
    /\ last.anomaly.anomaly_type = "SymmetryBreakdown"
    /\ last.anomaly.severity = "Critical"
    /\ last.result = Sell(20)
    /\ StateActionPair(last.state_id, Sell(20)) \in DOMAIN q_table
    /\ ~last.explored

(***************************************************************************)
(* synthetic: SyntheticDataGenerator::generate_future_data                 *)
(*                                                                         *)
(* A DateTime is its number of minutes since the epoch. The generators of  *)
(* the model hold no cycle and no symmetry, so a point's base price is the *)
(* previous close. Of the anchor only the close prices are read.           *)
(***************************************************************************)
MaxHorizonDays == 2      \* largest future_horizon_days

\* A variant of the point count that rounds up instead of down.
total_points_rounded_up(cfg) ==
    (cfg.future_horizon_days * 24 * 60 + cfg.resolution_minutes - 1)
        \div cfg.resolution_minutes

\* total_minutes / resolution_minutes (i64 division, resolution_minutes # 0).
total_points(cfg) == (cfg.future_horizon_days * 24 * 60) \div cfg.resolution_minutes

\* calculate_synthetic_volatility: 0.008, times 1.5 from 13:00 to 17:59, times 0.6 on
\* Saturday and Sunday. simulate_crisis_volatility is 1.0 for every progress in
\* [0, 1): |sin(0.2 * pi * progress)| stays below 0.7.
calculate_synthetic_volatility(timestamp) ==
    LET hour    == (timestamp \div 60) % 24
        weekday == ((timestamp \div 1440) + 3) % 7
        session_multiplier == IF hour >= 13 /\ hour <= 17 THEN Rat(3, 2) ELSE One
        weekly_multiplier  == IF weekday >= 5 THEN Rat(3, 5) ELSE One
    IN  FMul(FMul(Rat(8, 1000), session_multiplier), weekly_multiplier)

\* calculate_generation_confidence for the numbers of contributing cycles and of
\* symmetry influences.
calculate_generation_confidence(cycles, symmetries) ==
    FMin(FAdd(FAdd(Rat(1, 2), FMul(Num(cycles), Rat(2, 10))),
              FMul(Num(symmetries), Rat(3, 10))), One)

\* A variant of the point that puts the low only half a volatility under the base.
synthetic_point_with_narrow_low(cfg, timestamp, last_price, influence, noise) ==
    LET base_price == FAdd(last_price, influence.value)
        volatility == calculate_synthetic_volatility(timestamp)
    IN  [ timestamp |-> timestamp,
          open  |-> base_price,
          high  |-> FAdd(base_price, FMul(volatility, Rat(7, 10))),
          low   |-> FSub(base_price, FMul(volatility, Rat(5, 10))),
          close |-> FAdd(base_price, FMul(FMul(noise, volatility), cfg.noise_level)),
          generation_confidence |->
              calculate_generation_confidence(influence.cycles, influence.symmetries) ]

\* generate_synthetic_point. influence is what the two loops over hidden_cycles and
\* temporal_symmetries add to last_price at this step: the number of cycles and of
\* symmetries that pass the thresholds and the sum of their influences and
\* corrections (sines of the timestamp, finite for a cycle period of at least
\* one). noise is the draw of add_realistic_noise, in [-1, 1).
synthetic_point_with(cfg, timestamp, last_price, influence, noise) ==
    LET base_price == FAdd(last_price, influence.value)
        volatility == calculate_synthetic_volatility(timestamp)
    IN  [ timestamp |-> timestamp,
          open  |-> base_price,
          high  |-> FAdd(base_price, FMul(volatility, Rat(7, 10))),
          low   |-> FSub(base_price, FMul(volatility, Rat(6, 10))),
          close |-> FAdd(base_price, FMul(FMul(noise, volatility), cfg.noise_level)),
          generation_confidence |->
              calculate_generation_confidence(influence.cycles, influence.symmetries) ]

\* No cycle and no symmetry passes the thresholds.
NoInfluence == [cycles |-> 0, symmetries |-> 0, value |-> Zero]

\* generate_synthetic_point of a generator with no contributing cycle or symmetry.
generate_synthetic_point(cfg, timestamp, last_price, noise) ==
    synthetic_point_with(cfg, timestamp, last_price, NoInfluence, noise)

\* The loop of generate_future_data from iteration i on; noises is the stream of
\* random draws, repeated with period Len(noises).
RECURSIVE generate_from(_, _, _, _, _, _, _)
generate_from(cfg, total, i, current_time, last_price, noises, synthetic_data) ==
    IF i >= total THEN synthetic_data
    ELSE LET synthetic_point ==
                generate_synthetic_point(cfg, current_time, last_price,
                                         noises[(i % Len(noises)) + 1])
         IN  generate_from(cfg, total, i + 1, current_time + cfg.resolution_minutes,
                           synthetic_point.close, noises,
                           Append(synthetic_data, synthetic_point))

\* generate_future_data: the division comes first and panics on a zero divisor,
\* then an empty anchor is an error, then the loop runs.
generate_future_data(gen, start_date, noises) ==
    IF gen.config.resolution_minutes = 0
    THEN [kind |-> "panic", message |-> "attempt to divide by zero"]
    ELSE IF gen.historical_anchor = <<>>
    THEN [kind |-> "Err", message |-> "No historical data available"]
    ELSE [kind |-> "Ok",
          value |-> generate_from(gen.config, total_points(gen.config), 0, start_date,
                                  gen.historical_anchor[Len(gen.historical_anchor)],
                                  noises, <<>>)]

GeneratorConfigs ==
    [ future_horizon_days : 0 .. MaxHorizonDays,
      resolution_minutes  : {0, 360, 480, 1000, 1440, 2000},
      noise_level         : {Rat(1, 10), Rat(6, 10), One} ]

Anchors == { <<>>, <<Rat(11, 10)>>, <<Rat(11, 10), Rat(6, 5)>> }

\* Thursday 00:00, Thursday 13:00, Saturday 00:00.
StartDates == {0, 780, 2880}

NoiseDraws == {Num(-1), Zero, Rat(99, 100)}

\* SyntheticDataGenerator::new, beside an agent that is never used.
InitGenerator ==
    /\ NewAgent({AgentConfig(PlainRates, 0, 0)})
    /\ first_key = "node_000"
    /\ last = NoOp
    /\ steps = 0
    /\ generator \in [kind : {"generator"}, config : GeneratorConfigs,
                      historical_anchor : Anchors]
    /\ detector = Absent
    /\ engine = Absent
    /\ mdp = Absent
    /\ extrapolator = Absent
    /\ pair = Absent

GenerateFutureData(start_date, noises) ==
    /\ last' = [kind |-> "generate_future_data", start_date |-> start_date,
                result |-> generate_future_data(generator, start_date, noises)]
    /\ UNCHANGED <<agent_vars, pipeline_vars, steps>>

\* What the cycles and symmetries of a generator add at one step: nothing, one
\* cycle pushing up, two cycles and a symmetry pulling down by more than the
\* volatility.
Influences ==
    { NoInfluence,
      [cycles |-> 1, symmetries |-> 0, value |-> Rat(1, 10000)],
      [cycles |-> 2, symmetries |-> 1, value |-> Rat(-1, 50)] }

LastPrices == {Rat(6, 5)}

\* One call of generate_synthetic_point, as the loop of generate_future_data makes
\* it for a generator with cycles and symmetries.
GenerateSyntheticPoint(timestamp, last_price, influence, noise) ==
    /\ generator.historical_anchor # <<>>
    /\ last' = [kind |-> "generate_synthetic_point", last_price |-> last_price,
                influence |-> influence, noise |-> noise,
                result |-> synthetic_point_with(generator.config, timestamp, last_price,
                                                influence, noise)]
    /\ UNCHANGED <<agent_vars, pipeline_vars, steps>>

NextGenerator ==
    \/ \E start_date \in StartDates, noises \in [1 .. 2 -> NoiseDraws] :
            GenerateFutureData(start_date, noises)
    \/ \E timestamp \in StartDates, last_price \in LastPrices,
           influence \in Influences, noise \in NoiseDraws :
            GenerateSyntheticPoint(timestamp, last_price, influence, noise)

SpecGenerator == InitGenerator /\ [][NextGenerator]_vars

(***************************************************************************)
(* Properties of the generator                                             *)
(***************************************************************************)
\* C7: with a non-empty anchor (and a resolution of at least one minute, without
\* which the count is undefined) generate_future_data returns a series; a returned
\* series has exactly horizon_days*24*60/resolution_minutes points, the first at the
\* start time and each next one exactly resolution_minutes later.
C7_CountAndTimestamps ==
    last.kind = "generate_future_data" =>
        LET cfg == generator.config
        IN  /\ (generator.historical_anchor # <<>> /\ cfg.resolution_minutes >= 1)
                    => last.result.kind = "Ok"
            /\ last.result.kind = "Ok" =>
                LET points == last.result.value
                IN  /\ Len(points) * cfg.resolution_minutes
                            <= cfg.future_horizon_days * 24 * 60
                    /\ (Len(points) + 1) * cfg.resolution_minutes
                            > cfg.future_horizon_days * 24 * 60
                    /\ points # <<>> => points[1].timestamp = last.start_date
                    /\ \A i \in 1 .. (Len(points) - 1) :
                            /\ points[i + 1].timestamp - points[i].timestamp
                                    = cfg.resolution_minutes
                            /\ points[i + 1].timestamp > points[i].timestamp

\* C7 witness: two days at a resolution that does not divide them, two points.
C7_Witness ==
    /\ last.kind = "generate_future_data"
    /\ last.result.kind = "Ok"
    /\ generator.config.resolution_minutes = 1000
    /\ Len(last.result.value) = 2
    /\ last.start_date = 780

\* C8: generate_future_data fails exactly when the anchor is empty; with a
\* non-empty anchor it returns a series for every configuration.
C8_FailsExactlyOnEmptyAnchor ==
    last.kind = "generate_future_data" =>
        (last.result.kind # "Ok" <=> generator.historical_anchor = <<>>)

(***************************************************************************)
(* anomaly: baseline statistics                                            *)
(***************************************************************************)
\* f64::sqrt: exact on the square of a rational, otherwise rounded down to a
\* multiple of 1/(10 d); NaN for a negative value and for NaN.
FSqrt(a) ==
    CASE a.k = "num" /\ a.n >= 0 ->
            Rat(CHOOSE r \in 0 .. 5 * (a.n + a.d) :
                    r * r <= a.n * a.d * 100 /\ a.n * a.d * 100 < (r + 1) * (r + 1),
                10 * a.d)
      [] a.k = "pinf"            -> PInf
      [] OTHER                   -> NaN

\* sum::<f64>() / len as f64, as the baseline computes each mean and variance.
SumOverLen(values) == FDiv(FSum(values), Num(Len(values)))

\* The temporal correlation matrix of calculate_baseline_statistics: n x n entries
\* 1 / (1 + time_diff / 86400) over historical_data[0 .. n), n = len.min(100).
temporal_correlation_matrix(historical_data) ==
    [ i \in 1 .. Min(Len(historical_data), 100) |->
        [ j \in 1 .. Min(Len(historical_data), 100) |->
            FDiv(One,
                 FAdd(One,
                      FDiv(Num(60 * Abs(historical_data[i].timestamp
                                            - historical_data[j].timestamp)),
                           Num(86400)))) ] ]

\* calculate_baseline_statistics: it returns Ok on every input. A historical point
\* is its timestamp (in minutes) and its close.
calculate_baseline_statistics(historical_data) ==
    LET prices       == [i \in 1 .. Len(historical_data) |-> historical_data[i].close]
        mean_price   == SumOverLen(prices)
        price_variance ==
            SumOverLen([i \in 1 .. Len(prices) |->
                            LET dev == FSub(prices[i], mean_price) IN FMul(dev, dev)])
        volatilities ==
            [i \in 1 .. (Len(historical_data) - 1) |->
                FAbs(FDiv(FSub(historical_data[i + 1].close, historical_data[i].close),
                          historical_data[i].close))]
        mean_volatility == SumOverLen(volatilities)
        volatility_variance ==
            SumOverLen([i \in 1 .. Len(volatilities) |->
                            LET dev == FSub(volatilities[i], mean_volatility)
                            IN  FMul(dev, dev)])
    IN  [ kind |-> "Ok",
          mean_price |-> mean_price,
          price_std_dev |-> FSqrt(price_variance),
          mean_volatility |-> mean_volatility,
          volatility_std_dev |-> FSqrt(volatility_variance),
          temporal_correlation_matrix |-> temporal_correlation_matrix(historical_data) ]

\* TemporalAnomalyDetector::new: the error of the baseline, if any, is passed on.
new_detector(expected_symmetries, historical_data, cfg) ==
    LET baseline_statistics == calculate_baseline_statistics(historical_data)
    IN  IF baseline_statistics.kind # "Ok" THEN [kind |-> "Err"]
        ELSE [ kind |-> "Ok",
               expected_symmetries |-> expected_symmetries,
               config |-> cfg,
               baseline_statistics |-> baseline_statistics,
               anomaly_history |-> <<>> ]

(***************************************************************************)
(* anomaly: the detection rules and detect_anomalies                       *)
(*                                                                         *)
(* An anomaly carries its timestamp, type, strengths or volatilities,      *)
(* severity, confidence, deviation and trading signal; its random id and   *)
(* its market context are left out.                                        *)
(***************************************************************************)
\* A variant of the confidence test that accepts half a unit below the minimum.
confident_within_half(cfg, confidence) ==
    FGe(confidence, FSub(cfg.min_anomaly_confidence, Rat(1, 2)))

\* A variant of the confidence test that lets every anomaly through.
confident_always(cfg, confidence) == TRUE

\* confidence >= self.config.min_anomaly_confidence, the test of both rules and of
\* the final retain.
confident(cfg, confidence) == FGe(confidence, cfg.min_anomaly_confidence)

\* A variant of calculate_actual_symmetry_strength that takes a window too short
\* for the period as full strength.
calculate_actual_symmetry_strength_short_is_full(det, expected_symmetry, window_data) ==
    LET prices == [i \in 1 .. Len(window_data) |-> window_data[i].close]
        period == expected_symmetry.period_days
        count  == Len(prices) - period
    IN  IF Len(prices) < 2 \/ Len(prices) <= period THEN One
        ELSE LET correlation_sum ==
                    FSum([i \in 1 .. count |-> FMul(prices[i], prices[i + period])])
                 correlation == FDiv(correlation_sum, Num(count))
                 mean_price  == det.baseline_statistics.mean_price
                 std_dev     == det.baseline_statistics.price_std_dev
                 normalized_correlation ==
                    FDiv(FSub(correlation, FMul(mean_price, mean_price)),
                         FMul(std_dev, std_dev))
             IN  FMin(FAbs(normalized_correlation), One)

\* calculate_actual_symmetry_strength: the autocorrelation of the window's closes at
\* the symmetry's period, normalised by the baseline and clamped to at most 1.
calculate_actual_symmetry_strength(det, expected_symmetry, window_data) ==
    LET prices == [i \in 1 .. Len(window_data) |-> window_data[i].close]
        period == expected_symmetry.period_days
        count  == Len(prices) - period
    IN  IF Len(prices) < 2 \/ Len(prices) <= period THEN Zero
        ELSE LET correlation_sum ==
                    FSum([i \in 1 .. count |-> FMul(prices[i], prices[i + period])])
                 correlation == FDiv(correlation_sum, Num(count))
                 mean_price  == det.baseline_statistics.mean_price
                 std_dev     == det.baseline_statistics.price_std_dev
                 normalized_correlation ==
                    FDiv(FSub(correlation, FMul(mean_price, mean_price)),
                         FMul(std_dev, std_dev))
             IN  FMin(FAbs(normalized_correlation), One)

\* A variant of classify_severity whose thresholds belong to the lower class.
classify_severity_inclusive(deviation, baseline) ==
    LET relative_deviation == FDiv(deviation, baseline)
    IN  IF FLe(relative_deviation, Rat(1, 10)) THEN "Low"
        ELSE IF FLe(relative_deviation, Rat(3, 10)) THEN "Medium"
        ELSE IF FLe(relative_deviation, Rat(6, 10)) THEN "High"
        ELSE "Critical"

\* classify_severity: the first guard that holds; a NaN ratio falls through.
classify_severity(deviation, baseline) ==
    LET relative_deviation == FDiv(deviation, baseline)
    IN  IF FLt(relative_deviation, Rat(1, 10)) THEN "Low"
        ELSE IF FLt(relative_deviation, Rat(3, 10)) THEN "Medium"
        ELSE IF FLt(relative_deviation, Rat(6, 10)) THEN "High"
        ELSE "Critical"

\* A variant of the symmetry signal that emits the Hold signal as well.
generate_trading_signal_with_hold(expected_symmetry, actual_strength, confidence) ==
    LET strength_ratio == FDiv(actual_strength, expected_symmetry.strength)
    IN  [ kind |-> "Some",
          signal_type |-> IF FLt(strength_ratio, Rat(1, 2)) THEN "Sell"
                          ELSE IF FGt(strength_ratio, Rat(3, 2)) THEN "Buy"
                          ELSE "Hold",
          strength |-> FMin(FAbs(FSub(One, strength_ratio)), One),
          confidence |-> confidence ]

\* generate_trading_signal_from_symmetry_anomaly: Sell, Buy or no signal.
generate_trading_signal_from_symmetry_anomaly(expected_symmetry, actual_strength, confidence) ==
    LET strength_ratio == FDiv(actual_strength, expected_symmetry.strength)
        signal_type    == IF FLt(strength_ratio, Rat(1, 2)) THEN "Sell"
                          ELSE IF FGt(strength_ratio, Rat(3, 2)) THEN "Buy"
                          ELSE "Hold"
    IN  IF signal_type = "Hold" THEN Absent
        ELSE [ kind |-> "Some", signal_type |-> signal_type,
               strength |-> FMin(FAbs(FSub(One, strength_ratio)), One),
               confidence |-> confidence ]

\* generate_trading_signal_from_volatility_anomaly: Hold at twice the expected
\* volatility, otherwise no signal.
generate_trading_signal_from_volatility_anomaly(actual_volatility, expected_volatility, confidence) ==
    LET volatility_ratio == FDiv(actual_volatility, expected_volatility)
    IN  IF FLt(volatility_ratio, Num(2)) THEN Absent
        ELSE [ kind |-> "Some", signal_type |-> "Hold",
               strength |-> FMin(FSub(volatility_ratio, One), One),
               confidence |-> confidence ]

\* A variant of detect_symmetry_anomaly that walks the expected symmetries from the
\* last to the first.
RECURSIVE detect_symmetry_anomaly_from_last(_, _, _, _)
detect_symmetry_anomaly_from_last(det, synthetic_point, window_data, j) ==
    IF j > Len(det.expected_symmetries) THEN Absent
    ELSE LET expected_symmetry ==
                det.expected_symmetries[Len(det.expected_symmetries) + 1 - j]
             actual_strength ==
                calculate_actual_symmetry_strength(det, expected_symmetry, window_data)
             deviation  == FAbs(FSub(expected_symmetry.strength, actual_strength))
             threshold  == FMul(det.config.sensitivity_threshold,
                                expected_symmetry.strength)
             confidence == FMin(FDiv(deviation, expected_symmetry.strength), One)
         IN  IF FGt(deviation, threshold) /\ confident(det.config, confidence)
             THEN [ kind |-> "Some",
                    timestamp |-> synthetic_point.timestamp,
                    anomaly_type |-> "SymmetryBreakdown",
                    symmetry_id |-> expected_symmetry.id,
                    expected_strength |-> expected_symmetry.strength,
                    actual_strength |-> actual_strength,
                    severity |-> classify_severity(deviation, expected_symmetry.strength),
                    confidence |-> confidence,
                    deviation_magnitude |-> deviation,
                    trading_signal |->
                        generate_trading_signal_from_symmetry_anomaly(
                            expected_symmetry, actual_strength, confidence) ]
             ELSE detect_symmetry_anomaly_from_last(det, synthetic_point, window_data, j + 1)

\* detect_symmetry_anomaly from the j-th expected symmetry on: the first symmetry
\* whose deviation passes the threshold and whose confidence passes the minimum.
RECURSIVE detect_symmetry_anomaly(_, _, _, _)
detect_symmetry_anomaly(det, synthetic_point, window_data, j) ==
    IF j > Len(det.expected_symmetries) THEN Absent
    ELSE LET expected_symmetry == det.expected_symmetries[j]
             actual_strength ==
                calculate_actual_symmetry_strength(det, expected_symmetry, window_data)
             deviation  == FAbs(FSub(expected_symmetry.strength, actual_strength))
             threshold  == FMul(det.config.sensitivity_threshold,
                                expected_symmetry.strength)
             confidence == FMin(FDiv(deviation, expected_symmetry.strength), One)
         IN  IF FGt(deviation, threshold) /\ confident(det.config, confidence)
             THEN [ kind |-> "Some",
                    timestamp |-> synthetic_point.timestamp,
                    anomaly_type |-> "SymmetryBreakdown",
                    symmetry_id |-> expected_symmetry.id,
                    expected_strength |-> expected_symmetry.strength,
                    actual_strength |-> actual_strength,
                    severity |-> classify_severity(deviation, expected_symmetry.strength),
                    confidence |-> confidence,
                    deviation_magnitude |-> deviation,
                    trading_signal |->
                        generate_trading_signal_from_symmetry_anomaly(
                            expected_symmetry, actual_strength, confidence) ]
             ELSE detect_symmetry_anomaly(det, synthetic_point, window_data, j + 1)

\* detect_volatility_anomaly: the point's range over its close against the baseline.
detect_volatility_anomaly(det, synthetic_point, window_data) ==
    LET current_volatility ==
            FDiv(FSub(synthetic_point.high, synthetic_point.low), synthetic_point.close)
        expected_volatility == det.baseline_statistics.mean_volatility
        volatility_std_dev  == det.baseline_statistics.volatility_std_dev
        volatility_threshold ==
            FAdd(expected_volatility,
                 FMul(det.config.sensitivity_threshold, volatility_std_dev))
        deviation  == FSub(current_volatility, expected_volatility)
        confidence == FMin(FDiv(deviation, volatility_std_dev), One)
    IN  IF Len(window_data) >= 2
           /\ FGt(current_volatility, volatility_threshold)
           /\ confident(det.config, confidence)
        THEN [ kind |-> "Some",
               timestamp |-> synthetic_point.timestamp,
               anomaly_type |-> "VolatilitySpike",
               expected_volatility |-> expected_volatility,
               actual_volatility |-> current_volatility,
               severity |-> classify_severity(deviation, expected_volatility),
               confidence |-> confidence,
               deviation_magnitude |-> deviation,
               trading_signal |->
                    generate_trading_signal_from_volatility_anomaly(
                        current_volatility, expected_volatility, confidence) ]
        ELSE Absent

\* A variant of detect_cycle_anomaly that reports a disruption at every point.
detect_cycle_anomaly_reporting(det, synthetic_point, window_data) ==
    [ kind |-> "Some", timestamp |-> synthetic_point.timestamp,
      anomaly_type |-> "CycleDisruption", severity |-> "Low", confidence |-> One,
      deviation_magnitude |-> Zero, trading_signal |-> Absent ]

\* detect_cycle_anomaly, detect_pattern_inversion, detect_novel_pattern: each
\* returns Ok(None) whatever its arguments.
detect_cycle_anomaly(det, synthetic_point, window_data) == Absent

detect_pattern_inversion(det, synthetic_point, window_data) == Absent

detect_novel_pattern(det, synthetic_point, window_data) == Absent

\* The detection window of the i-th point (i counts from 1, the code's index is
\* i - 1): synthetic_data[window_start ..= i - 1] with
\* window_start = (i - 1).saturating_sub(detection_window_size).
detection_window(cfg, synthetic_data, i) ==
    LET window_start == IF i - 1 > cfg.detection_window_size
                        THEN i - 1 - cfg.detection_window_size ELSE 0
    IN  SubSeq(synthetic_data, window_start + 1, i)

\* The anomalies the five rules report for the i-th point, in the order in which
\* detect_anomalies calls the rules.
rules_at(det, synthetic_data, i) ==
    LET window_data == detection_window(det.config, synthetic_data, i)
        reports ==
            << detect_symmetry_anomaly(det, synthetic_data[i], window_data, 1),
               detect_cycle_anomaly(det, synthetic_data[i], window_data),
               detect_volatility_anomaly(det, synthetic_data[i], window_data),
               detect_pattern_inversion(det, synthetic_data[i], window_data),
               detect_novel_pattern(det, synthetic_data[i], window_data) >>
    IN  (IF reports[1] = Absent THEN <<>> ELSE <<reports[1]>>)
            \o (IF reports[2] = Absent THEN <<>> ELSE <<reports[2]>>)
            \o (IF reports[3] = Absent THEN <<>> ELSE <<reports[3]>>)
            \o (IF reports[4] = Absent THEN <<>> ELSE <<reports[4]>>)
            \o (IF reports[5] = Absent THEN <<>> ELSE <<reports[5]>>)

\* The loop of detect_anomalies from the i-th point on (i counts from 1).
RECURSIVE detect_from(_, _, _, _)
detect_from(det, synthetic_data, i, detected_anomalies) ==
    IF i > Len(synthetic_data) THEN detected_anomalies
    ELSE detect_from(det, synthetic_data, i + 1,
                     detected_anomalies \o rules_at(det, synthetic_data, i))

\* A variant of the history push that drops the pushed anomaly when more than 1000
\* are held.
RECURSIVE push_history_drops_newest(_, _)
push_history_drops_newest(anomaly_history, anomalies) ==
    IF anomalies = <<>> THEN anomaly_history
    ELSE push_history_drops_newest(
            IF Len(anomaly_history) + 1 > 1000 THEN anomaly_history
            ELSE Append(anomaly_history, Head(anomalies)),
            Tail(anomalies))

\* The history after pushing the anomalies one by one, evicting the front whenever
\* more than 1000 are held.
RECURSIVE push_history(_, _)
push_history(anomaly_history, anomalies) ==
    IF anomalies = <<>> THEN anomaly_history
    ELSE LET pushed == Append(anomaly_history, Head(anomalies))
         IN  push_history(IF Len(pushed) > 1000 THEN Tail(pushed) ELSE pushed,
                          Tail(anomalies))

\* detected_anomalies.retain(|a| a.confidence >= min_anomaly_confidence)
RECURSIVE retain(_, _)
retain(cfg, anomalies) ==
    IF anomalies = <<>> THEN <<>>
    ELSE (IF confident(cfg, Head(anomalies).confidence) THEN <<Head(anomalies)>> ELSE <<>>)
            \o retain(cfg, Tail(anomalies))

\* detect_anomalies, the value it returns: the rules on every point, then the retain.
detect_anomalies(det, synthetic_data) ==
    retain(det.config, detect_from(det, synthetic_data, 1, <<>>))

(***************************************************************************)
(* The detector's inputs and operations                                    *)
(***************************************************************************)
MaxSeries     == 2       \* longest series handed to detect_anomalies
MaxDetections == 2       \* calls of detect_anomalies per behaviour

\* The fields of a TemporalSymmetry that the detector reads.
ExpectedSymmetryLists ==
    { <<[id |-> "sym_a", period_days |-> 1, strength |-> Rat(1, 2)]>>,
      <<[id |-> "sym_c", period_days |-> 1, strength |-> Rat(7, 10)]>>,
      <<[id |-> "sym_zero", period_days |-> 1, strength |-> Zero],
        [id |-> "sym_b", period_days |-> 2, strength |-> Rat(4, 5)]>> }

\* Daily closes: no point, one point, two points (different and equal closes),
\* three points.
HistoricalSeries ==
    { <<>>,
      <<[timestamp |-> 0, close |-> One]>>,
      <<[timestamp |-> 0, close |-> Num(2)], [timestamp |-> 1440, close |-> Num(2)]>>,
      <<[timestamp |-> 0, close |-> One], [timestamp |-> 1440, close |-> Num(3)]>>,
      <<[timestamp |-> 0, close |-> Num(2)], [timestamp |-> 1440, close |-> Num(4)],
        [timestamp |-> 2880, close |-> Num(5)]>> }

DetectorConfigs ==
    [ sensitivity_threshold  : {Rat(3, 10)},
      detection_window_size  : {0, 1, 2},
      min_anomaly_confidence : {Zero, Rat(7, 10), Num(2)} ]

\* A synthetic point of the given close whose high and low are range apart.
SyntheticPoint(close, range) ==
    [ timestamp |-> 0, open |-> close, close |-> close,
      high |-> FAdd(close, FDiv(range, Num(2))),
      low  |-> FSub(close, FDiv(range, Num(2))),
      generation_confidence |-> Rat(1, 2) ]

\* Hourly series: a range of 0.9, of 0.8 and of 0 of the close, and a close of 0.
BaseSeries ==
    LET a == SyntheticPoint(One, Rat(9, 10))
        b == SyntheticPoint(One, Rat(4, 5))
        c == SyntheticPoint(Num(2), Zero)
        d == SyntheticPoint(Zero, One)
    IN  { <<a, b, c, a>>, <<c, a, d, b>>, <<b, b, a, c>> }

SeriesInputs ==
    { [i \in 1 .. n |-> [s[i] EXCEPT !.timestamp = 60 * i]] :
        s \in BaseSeries, n \in 0 .. Min(MaxSeries, 4) }

\* TemporalAnomalyDetector::new, beside an agent that is never used.
InitDetector ==
    /\ NewAgent({AgentConfig(PlainRates, 0, 0)})
    /\ first_key = "node_000"
    /\ generator = Absent
    /\ engine = Absent
    /\ mdp = Absent
    /\ extrapolator = Absent
    /\ pair = Absent
    /\ steps = 0
    /\ \E symmetries \in ExpectedSymmetryLists, historical_data \in HistoricalSeries,
          cfg \in DetectorConfigs :
            /\ detector = new_detector(symmetries, historical_data, cfg)
            /\ last = [kind |-> "new_detector", historical_data |-> historical_data]

\* detect_anomalies: the returned anomalies are also pushed onto the history.
DetectAnomalies(synthetic_data) ==
    /\ detector.kind = "Ok"
    /\ steps < MaxDetections
    /\ \E detected_anomalies \in {detect_anomalies(detector, synthetic_data)} :
        /\ detector' = [detector EXCEPT
                            !.anomaly_history = push_history(@, detected_anomalies)]
        /\ last' = [kind |-> "detect_anomalies", synthetic_data |-> synthetic_data,
                    result |-> [kind |-> "Ok", value |-> detected_anomalies],
                    before |-> detector.anomaly_history]
    /\ steps' = steps + 1
    /\ UNCHANGED <<agent_vars, generator, engine, mdp, extrapolator, pair>>

NextDetector == \E synthetic_data \in SeriesInputs : DetectAnomalies(synthetic_data)

SpecDetector == InitDetector /\ [][NextDetector]_vars

(***************************************************************************)
(* Properties of the detector                                              *)
(***************************************************************************)
\* C2: no anomaly returned by detect_anomalies, and no anomaly of the detector's
\* history, has a confidence below min_anomaly_confidence.
C2_NoAnomalyBelowMinConfidence ==
    detector.kind = "Ok" =>
        /\ \A i \in 1 .. Len(detector.anomaly_history) :
                FGe(detector.anomaly_history[i].confidence,
                    detector.config.min_anomaly_confidence)
        /\ last.kind = "detect_anomalies" =>
                \A i \in 1 .. Len(last.result.value) :
                    FGe(last.result.value[i].confidence,
                        detector.config.min_anomaly_confidence)

\* C2 witness: with a minimum of 0.7, a later call returns a volatility anomaly of
\* confidence below 1, which joins the anomalies of the earlier call in the history.
C2_Witness ==
    /\ last.kind = "detect_anomalies"
    /\ detector.config.min_anomaly_confidence = Rat(7, 10)
    /\ \E i \in 1 .. Len(last.result.value) :
            /\ last.result.value[i].anomaly_type = "VolatilitySpike"
            /\ FLt(last.result.value[i].confidence, One)
    /\ last.before # <<>>
    /\ detector.anomaly_history = last.before \o last.result.value

\* C9: building the baseline fails on an empty historical series, and on a
\* non-empty one (a single point included) it succeeds without dividing by a zero
\* count, so that no mean is the NaN of 0/0.
C9_BaselineRejectsEmptySeries ==
    last.kind = "new_detector" =>
        IF last.historical_data = <<>>
        THEN detector.kind = "Err"
        ELSE /\ detector.kind = "Ok"
             /\ ~IsNaN(detector.baseline_statistics.mean_price)
             /\ ~IsNaN(detector.baseline_statistics.mean_volatility)

(***************************************************************************)
(* core/engine: TimeSymmetricEngine                                        *)
(*                                                                         *)
(* Of a ForexDataPoint the model keeps the close: the other prices reach   *)
(* only bits of the encoding that the reduction modulo the field size      *)
(* drops. Of a TemporalSymmetry it leaves out the name, the discovery time *)
(* and the validation score.                                               *)
(***************************************************************************)
MaxData == 9         \* longest series handed to extract_temporal_symmetries

\* encode_temporal_state: the processor's field has size 2 and every component but
\* past_encoding[0] is shifted left by at least 4 bits, so the encoded state is the
\* lowest bit of (past_encoding[0] * 1000.0) as u64, a saturating cast.
encode_temporal_state(past_encoding_0) ==
    CASE past_encoding_0.k = "num" /\ past_encoding_0.n > 0 ->
            ((past_encoding_0.n * 1000) \div past_encoding_0.d) % 2
      [] past_encoding_0.k = "pinf" -> 1
      [] OTHER                      -> 0

\* convert_to_temporal_states and encode_states_to_field: past_encoding[0] of the
\* k-th point is the mean close of the coherence_window points before it, and 0.0
\* when there are fewer or the window is empty.
encode_states_to_field(cfg, data) ==
    [ k \in 1 .. Len(data) |->
        encode_temporal_state(
            IF k - 1 >= cfg.coherence_window /\ cfg.coherence_window > 0
            THEN SumOverLen([j \in 1 .. cfg.coherence_window |->
                                data[k - cfg.coherence_window - 1 + j].close])
            ELSE Zero) ]

\* compute_field_correlation of the cycle starting at `first` with the next one:
\* 1 - popcount(a ^ b) / 64 averaged over the cycle, a and b being single bits.
compute_field_correlation(encoded_states, first, cycle_len) ==
    SumOverLen([ j \in 1 .. cycle_len |->
        IF encoded_states[first + j - 1] = encoded_states[first + cycle_len + j - 1]
        THEN One ELSE Rat(63, 64) ])

\* compute_cycle_strength: the mean correlation of consecutive whole cycles.
compute_cycle_strength(encoded_states, cycle_len) ==
    IF Len(encoded_states) \div cycle_len < 2 THEN Zero
    ELSE SumOverLen([ i \in 1 .. ((Len(encoded_states) \div cycle_len) - 1) |->
            compute_field_correlation(encoded_states, (i - 1) * cycle_len + 1, cycle_len) ])

\* compute_field_signature: the XOR of all the encoded states.
compute_field_signature(encoded_states) ==
    Cardinality({ k \in 1 .. Len(encoded_states) : encoded_states[k] = 1 }) % 2

\* The loop of detect_cyclic_patterns from cycle_length on.
RECURSIVE patterns_from(_, _, _)
patterns_from(cfg, encoded_states, cycle_length) ==
    IF cycle_length > cfg.max_cycle_period THEN <<>>
    ELSE (IF Len(encoded_states) >= cycle_length * 3
             /\ FGt(compute_cycle_strength(encoded_states, cycle_length),
                    cfg.min_symmetry_strength)
          THEN << [ period |-> cycle_length,
                    strength |-> compute_cycle_strength(encoded_states, cycle_length),
                    field_signature |-> compute_field_signature(encoded_states) ] >>
          ELSE <<>>)
         \o patterns_from(cfg, encoded_states, cycle_length + 1)

\* A variant of the sort that leaves the patterns in period order.
sort_by_strength_unsorted(patterns) == patterns

\* patterns.sort_by(strength, descending), a stable sort: a pattern is preceded by
\* the stronger ones and by the equally strong ones that came before it.
sort_by_strength(patterns) ==
    [ r \in 1 .. Len(patterns) |->
        patterns[CHOOSE i \in 1 .. Len(patterns) :
            Cardinality({ j \in 1 .. Len(patterns) :
                \/ FGt(patterns[j].strength, patterns[i].strength)
                \/ j < i /\ patterns[j].strength = patterns[i].strength }) = r - 1] ]

\* classify_pattern_name: the class of the period, then the period itself.
classify_pattern_name(period) ==
    (CASE period \in 1 .. 10      -> "short_term_cycle"
       [] period \in 11 .. 30     -> "monthly_cycle"
       [] period \in 31 .. 100    -> "quarterly_cycle"
       [] period \in 101 .. 400   -> "annual_cycle"
       [] period \in 401 .. 2000  -> "multi_year_cycle"
       [] period \in 2001 .. 3000 -> "political_cycle"
       [] period \in 3001 .. 8000 -> "generational_cycle"
       [] OTHER                   -> "long_term_cycle")
    \o "_" \o ToString(period) \o "_days"

\* The direction of a day: 1.0 when it closed above its open, else -1.0.
direction(point) == IF FGt(point.close, point.open) THEN 1 ELSE -1

\* compute_cycle_prediction_accuracy of the cycle starting at `first` with the next
\* one: the share of days whose direction repeats.
compute_cycle_prediction_accuracy(data, first, cycle_len) ==
    SumOverLen([ j \in 1 .. cycle_len |->
        IF direction(data[first + j - 1]) = direction(data[first + cycle_len + j - 1])
        THEN One ELSE Zero ])

\* validate_pattern_against_data: the mean accuracy over consecutive whole cycles.
validate_pattern_against_data(period, data) ==
    IF Len(data) \div period < 2 THEN Zero
    ELSE SumOverLen([ i \in 1 .. ((Len(data) \div period) - 1) |->
            compute_cycle_prediction_accuracy(data, (i - 1) * period + 1, period) ])

\* extract_symmetries_from_patterns: one symmetry per pattern, in order, each
\* stamped with the wall-clock time `now` that chrono::Utc::now() returns.
extract_symmetries_from_patterns(patterns, original_data, now) ==
    [ i \in 1 .. Len(patterns) |->
        [ id |-> "symmetry_" \o ToString(i - 1),
          symmetry_type |-> "mirror",
          name |-> classify_pattern_name(patterns[i].period),
          period_days |-> patterns[i].period,
          strength |-> patterns[i].strength,
          confidence |-> patterns[i].strength,
          field_signature |-> patterns[i].field_signature,
          discovered_at |-> now,
          validation_score |->
                validate_pattern_against_data(patterns[i].period, original_data),
          mirror_points |-> <<>>,
          phase_shift |-> Zero ] ]

\* A variant of extract_temporal_symmetries that rejects an empty series.
extract_rejecting_empty(eng, data, now) ==
    IF ~eng.initialized \/ data = <<>>
    THEN [kind |-> "Err", message |-> "Engine not initialized"]
    ELSE [kind |-> "Ok", value |-> <<>>]

\* extract_temporal_symmetries, the value it returns.
extract_temporal_symmetries(eng, data, now) ==
    IF ~eng.initialized
    THEN [kind |-> "Err", message |-> "Engine not initialized"]
    ELSE [kind |-> "Ok",
          value |-> extract_symmetries_from_patterns(sort_by_strength(
                        patterns_from(eng.config,
                                      encode_states_to_field(eng.config, data), 2)),
                        data, now)]

EngineConfigs ==
    [ field_characteristic  : {0, 2},
      max_cycle_period      : {1, 2, 3},
      min_symmetry_strength : {Rat(3, 4), Rat(127, 128), One},
      coherence_window      : {0, 1, 2} ]

\* Days that open at 1.25, with closes that f64 holds exactly: 1.125 and 1.375
\* quantise to odd numbers, 1.25 and 1.5 to even ones.
EngineBaseSeries ==
    LET odd  == [open |-> Rat(5, 4), close |-> Rat(9, 8)]
        odd2 == [open |-> Rat(5, 4), close |-> Rat(11, 8)]
        even == [open |-> Rat(5, 4), close |-> Rat(5, 4)]
        eve2 == [open |-> Rat(5, 4), close |-> Rat(3, 2)]
    IN  { <<odd, even, odd2, eve2, odd, even, odd2, eve2, odd, even>>,
          <<even, even, eve2, eve2, even, even, eve2, eve2, even, even>>,
          <<odd, odd, even, odd2, eve2, eve2, odd, even, even, odd2>> }

\* Prefixes of whole multiples of three days: 6 days hold three cycles of
\* period 2, 9 days three cycles of period 3.
EngineSeries ==
    { SubSeq(s, 1, n) : s \in EngineBaseSeries,
                        n \in { k \in 0 .. Min(MaxData, 10) : k % 3 = 0 } }

\* TimeSymmetricEngine::new, beside an agent that is never used: no characteristic
\* is rejected, and the engine starts uninitialized with an empty cache.
InitEngine ==
    /\ NewAgent({AgentConfig(PlainRates, 0, 0)})
    /\ first_key = "node_000"
    /\ generator = Absent
    /\ detector = Absent
    /\ mdp = Absent
    /\ extrapolator = Absent
    /\ pair = Absent
    /\ steps = 0
    /\ last = NoOp
    /\ engine \in [kind : {"Ok"}, config : EngineConfigs, initialized : {FALSE},
                   symmetry_cache : {[id \in {} |-> Absent]}]

\* initialize: no step of it can fail; a second call changes nothing.
Initialize ==
    /\ engine' = [engine EXCEPT !.initialized = TRUE]
    /\ last' = [kind |-> "initialize", result |-> [kind |-> "Ok"]]
    /\ UNCHANGED <<agent_vars, generator, detector, mdp, extrapolator, pair, steps>>

\* Readings of the wall clock.
Clock == {1000, 2000}

\* extract_temporal_symmetries: a successful call caches its symmetries by id. The
\* history keeps the result of the call before when that call was the last
\* operation and was given the same series.
ExtractTemporalSymmetries(data, now) ==
    /\ \E result \in {extract_temporal_symmetries(engine, data, now)} :
        /\ last' = [kind |-> "extract_temporal_symmetries", data |-> data,
                    result |-> result,
                    previous |-> IF last.kind = "extract_temporal_symmetries"
                                    /\ last.data = data
                                 THEN last.result ELSE Absent]
        /\ engine' =
            IF result.kind # "Ok" THEN engine
            ELSE [engine EXCEPT !.symmetry_cache =
                    [ id \in (DOMAIN @) \cup { result.value[i].id :
                                                i \in 1 .. Len(result.value) } |->
                        IF \E i \in 1 .. Len(result.value) : result.value[i].id = id
                        THEN result.value[CHOOSE i \in 1 .. Len(result.value) :
                                            result.value[i].id = id]
                        ELSE @[id] ]]
    /\ UNCHANGED <<agent_vars, generator, detector, mdp, extrapolator, pair, steps>>

NextEngine ==
    \/ Initialize
    \/ \E data \in EngineSeries, now \in Clock : ExtractTemporalSymmetries(data, now)

SpecEngine == InitEngine /\ [][NextEngine]_vars

(***************************************************************************)
(* Properties of the engine                                                *)
(***************************************************************************)
\* C10 (as stated): on any engine that was constructed, every call of
\* extract_temporal_symmetries returns success.
C10_ConstructedEngineExtracts ==
    last.kind = "extract_temporal_symmetries" => last.result.kind = "Ok"

\* C10 (amended): extract_temporal_symmetries fails exactly on an engine on which
\* initialize has not been called; on an initialized engine every call, on any
\* series, returns success, with an empty collection for an empty series.
C10_InitializedEngineExtracts ==
    last.kind = "extract_temporal_symmetries" =>
        /\ last.result.kind = "Ok" <=> engine.initialized
        /\ (engine.initialized /\ last.data = <<>>) => last.result.value = <<>>

\* C10 witness: an initialized engine that had cached a symmetry finds the cycle of
\* period 2 too weak in a series of nine points, and returns an empty collection.
C10_Witness ==
    /\ last.kind = "extract_temporal_symmetries"
    /\ engine.initialized
    /\ engine.config.max_cycle_period = 2
    /\ engine.config.min_symmetry_strength = Rat(127, 128)
    /\ Len(last.data) >= 9
    /\ last.result.kind = "Ok"
    /\ last.result.value = <<>>
    /\ DOMAIN engine.symmetry_cache # {}

(***************************************************************************)
(* laplacian_rl: update_q_value run against a small deterministic MDP      *)
(***************************************************************************)
MaxSweeps == 6       \* passes of update_q_value over the four state-action pairs
BellmanIterations == 12   \* iterations of the exact Bellman operator from zero

\* The four state-action pairs of the environment, in the order they are updated:
\* two states, and the two actions whose PME correction is zero.
ToyPairs ==
    << StateActionPair("s_a", Hold), StateActionPair("s_a", ClosePosition),
       StateActionPair("s_b", Hold), StateActionPair("s_b", ClosePosition) >>

\* Deterministic environments: a reward and a next state for each pair.
ToyMDPs ==
    [kind : {"mdp"},
     reward : [1 .. 4 -> {FNeg(One), Zero, One}],
     next_state : [1 .. 4 -> {"s_a", "s_b"}]]

\* Settings with attention_weight = 0: learning rate 1 with discount 1/2, and
\* learning rate 1/2 with discount 0, so that the exact values stay small.
ToyRates ==
    { [PlainRates EXCEPT !.learning_rate = One, !.discount_factor = Rat(1, 2)],
      [PlainRates EXCEPT !.learning_rate = Rat(1, 2), !.discount_factor = Zero] }

InitMDP ==
    /\ NewAgent({ AgentConfig(r, 0, 0) : r \in ToyRates })
    /\ first_key = "node_000"
    /\ mdp \in ToyMDPs
    /\ extrapolator = Absent
    /\ pair = Absent
    /\ generator = Absent
    /\ detector = Absent
    /\ engine = Absent
    /\ steps = 0
    /\ last = NoOp

\* One call of update_q_value on the next pair of the sweep, with the reward and
\* the next state the environment gives for it; the episode never ends.
UpdateToyMDP ==
    /\ steps < 4 * MaxSweeps
    /\ \E i \in {(steps % 4) + 1} :
        \E e \in {[state |-> ToyPairs[i].state_id, action |-> ToyPairs[i].action,
                   reward |-> mdp.reward[i], next_state |-> mdp.next_state[i],
                   done |-> FALSE]} :
            /\ q_table' = update_q_value(q_table, config, first_key,
                                         e.state, e.action, e.reward, e.next_state, e.done)
            /\ last' = [kind |-> "update_q_value", experience |-> e, before |-> Before]
    /\ steps' = steps + 1
    /\ UNCHANGED <<experience_buffer, config, first_key, inserted, pipeline_vars>>

NextMDP == UpdateToyMDP

SpecMDP == InitMDP /\ [][NextMDP]_vars

\* One application of the exact Bellman operator to a table v over the four pairs:
\* reward plus the discounted maximum over the two actions of the next state.
ExactBellmanValue(m, discount_factor, v, i) ==
    LET j == IF m.next_state[i] = "s_a" THEN 1 ELSE 3
    IN  FAdd(m.reward[i], FMul(discount_factor, FMax(v[j], v[j + 1])))

ExactBellmanStep(m, discount_factor, v) ==
    << ExactBellmanValue(m, discount_factor, v, 1),
       ExactBellmanValue(m, discount_factor, v, 2),
       ExactBellmanValue(m, discount_factor, v, 3),
       ExactBellmanValue(m, discount_factor, v, 4) >>

RECURSIVE ExactBellman(_, _, _, _)
ExactBellman(m, discount_factor, v, k) ==
    IF k = 0 THEN v
    ELSE ExactBellman(m, discount_factor, ExactBellmanStep(m, discount_factor, v), k - 1)

\* The tolerance of the comparison.  With rewards in [-1, 1] and a discount of at
\* most 1/2 the exact iterate is within 2 / 2^BellmanIterations of its limit.
Epsilon == Rat(1, 8)

\* C4: after MaxSweeps passes of update_q_value over the four pairs of a two-state,
\* two-action deterministic MDP, with attention_weight = 0, every stored Q-value is
\* within Epsilon of the value exact Bellman iteration gives for that pair.
C4_ConvergesToBellman ==
    (mdp # Absent /\ steps = 4 * MaxSweeps) =>
        \E exact \in {ExactBellman(mdp, config.discount_factor,
                                   <<Zero, Zero, Zero, Zero>>, BellmanIterations)} :
            \A i \in 1 .. 4 :
                FLe(FAbs(FSub(q_get(q_table, ToyPairs[i]), exact[i])), Epsilon)

(***************************************************************************)
(* synthetic: TemporalExtrapolator                                         *)
(***************************************************************************)
MaxPatterns == 2     \* longest historical series handed to TemporalExtrapolator::new

\* `x as u64` of an f64: truncation toward zero, saturating, NaN to 0.
AsU64(x) ==
    CASE x.k = "num" /\ x.n > 0 -> x.n \div x.d
      [] OTHER                  -> 0

\* a ^ b on unsigned integers.
RECURSIVE BitXor(_, _)
BitXor(a, b) ==
    IF a = 0 THEN b
    ELSE IF b = 0 THEN a
    ELSE 2 * BitXor(a \div 2, b \div 2) + ((a + b) % 2)

\* GaloisField::encode_temporal_state with the extrapolator's prime 2147483647.
galois_encode_temporal_state(timestamp, price) == BitXor(timestamp, price) % 2147483647

\* (-time_diff / (86400.0 * 365.0)).exp() at the differences two historical points
\* of the series below can have, none or one day, rounded to six decimals.
temporal_correlation(time_diff) ==
    IF time_diff = 0 THEN One ELSE Rat(997264, 1000000)

\* find_mirror_point: the first historical point closest to the mirror timestamp.
find_mirror_point(historical_patterns, index, time_diff) ==
    LET target_timestamp == historical_patterns[index].timestamp - time_diff
        distance(i) == Abs(historical_patterns[i].timestamp - target_timestamp)
    IN  CHOOSE i \in 1 .. Len(historical_patterns) :
            /\ \A j \in 1 .. Len(historical_patterns) : distance(i) <= distance(j)
            /\ \A j \in 1 .. (i - 1) : distance(j) > distance(i)

\* calculate_mirror_strength of two historical points.
calculate_mirror_strength(historical_patterns, index1, index2) ==
    LET point1 == historical_patterns[index1]
        point2 == historical_patterns[index2]
        price_diff == FAbs(FSub(point1.close, point2.close))
        max_price  == FMax(point1.close, point2.close)
        price_correlation == FSub(One, FDiv(price_diff, max_price))
        time_diff == Abs(point1.timestamp - point2.timestamp)
    IN  FMin(FMax(FMul(price_correlation, temporal_correlation(time_diff)), Zero), One)

\* The period of a mirror symmetry: (time_diff / 86400) as u32.
mirror_period_days(time_diff) == time_diff \div 86400

\* The loop of find_mirror_symmetry from the i-th historical point on (from 1).
RECURSIVE find_mirror_symmetry(_, _, _)
find_mirror_symmetry(historical_patterns, target_timestamp, i) ==
    IF i > Len(historical_patterns) THEN <<>>
    ELSE LET point == historical_patterns[i]
             time_diff == Abs(target_timestamp - point.timestamp)
             strength == calculate_mirror_strength(historical_patterns, i,
                            find_mirror_point(historical_patterns, i, time_diff))
         IN  IF FGt(strength, Rat(6, 10))
             THEN << [ id |-> "mirror_" \o ToString(i - 1),
                       symmetry_type |-> "Mirror",
                       name |-> "Historical Mirror Pattern",
                       period_days |-> mirror_period_days(time_diff),
                       strength |-> strength,
                       confidence |-> FMul(strength, Rat(9, 10)),
                       field_signature |->
                            galois_encode_temporal_state(target_timestamp,
                                AsU64(FMul(point.close, Num(10000)))),
                       validation_score |-> strength,
                       mirror_points |-> << <<point.timestamp, point.close>> >>,
                       phase_shift |-> Zero ] >>
             ELSE find_mirror_symmetry(historical_patterns, target_timestamp, i + 1)

\* apply_field_extension: a Mirror symmetry pulls the price back by 2% of its
\* strength; find_temporal_symmetries yields at most the mirror symmetry, since the
\* rotational and translational searches return None.
apply_field_extension(base_price, symmetries) ==
    IF symmetries = <<>> THEN base_price
    ELSE FMul(base_price, FSub(One, FMul(symmetries[1].strength, Rat(2, 100))))

\* extrapolate_patterns, the value it returns.
extrapolate_patterns(ext, target_date, base_price) ==
    LET symmetries == find_mirror_symmetry(ext.historical_patterns, target_date, 1)
        future_price == apply_field_extension(base_price, symmetries)
    IN  [ kind |-> "Ok",
          value |->
            [ target_date |-> target_date,
              predicted_price |-> future_price,
              confidence |-> FDiv(FSum([i \in 1 .. Len(symmetries) |->
                                            symmetries[i].strength]),
                                  Num(Len(symmetries))),
              contributing_symmetries |-> symmetries,
              field_basis |-> galois_encode_temporal_state(target_date,
                                    AsU64(FMul(future_price, Num(10000)))) ] ]

\* Historical points a day apart at most, in ascending order, with closes 0, 1, 2.
ExtrapolatorPoints ==
    [timestamp : {0, 86400}, close : {Zero, One, Num(2)}]

ExtrapolatorSeries ==
    { s \in UNION { [1 .. n -> ExtrapolatorPoints] : n \in 0 .. MaxPatterns } :
        \A i \in 1 .. (Len(s) - 1) : s[i].timestamp <= s[i + 1].timestamp }

\* Target dates: on a historical point, half a day and a day after it, a year on.
TargetDates == {0, 43200, 86400, 172800, 31536000}

\* TemporalExtrapolator::new, beside an agent that is never used; the symmetry
\* matrix it builds is never read afterwards and is left out.
InitExtrapolator ==
    /\ NewAgent({AgentConfig(PlainRates, 0, 0)})
    /\ first_key = "node_000"
    /\ generator = Absent
    /\ detector = Absent
    /\ engine = Absent
    /\ mdp = Absent
    /\ extrapolator \in [kind : {"Ok"}, historical_patterns : ExtrapolatorSeries]
    /\ pair = Absent
    /\ steps = 0
    /\ last = NoOp

ExtrapolatePatterns(target_date, base_price) ==
    /\ last' = [kind |-> "extrapolate_patterns", target_date |-> target_date,
                base_price |-> base_price,
                result |-> extrapolate_patterns(extrapolator, target_date, base_price)]
    /\ UNCHANGED <<agent_vars, pipeline_vars, steps>>

NextExtrapolator ==
    \E target_date \in TargetDates, base_price \in {One, Rat(5, 4)} :
        ExtrapolatePatterns(target_date, base_price)

SpecExtrapolator == InitExtrapolator /\ [][NextExtrapolator]_vars

(***************************************************************************)
(* core/engine: the symmetries extract_temporal_symmetries returns         *)
(***************************************************************************)
\* C11: every returned symmetry has a period in [2, max_cycle_period] that no other
\* returned symmetry has and a strength strictly above min_symmetry_strength, and
\* the strengths never increase along the result.
C11_PeriodsStrengthsOrder ==
    (last.kind = "extract_temporal_symmetries" /\ last.result.kind = "Ok") =>
        \A i \in 1 .. Len(last.result.value) :
            /\ last.result.value[i].period_days \in 2 .. engine.config.max_cycle_period
            /\ FGt(last.result.value[i].strength, engine.config.min_symmetry_strength)
            /\ \A j \in (i + 1) .. Len(last.result.value) :
                /\ last.result.value[j].period_days # last.result.value[i].period_days
                /\ FGe(last.result.value[i].strength, last.result.value[j].strength)

\* C11 witness: two symmetries are returned and the sort has put the period-3 one,
\* which is strictly stronger, before the period-2 one.
C11_Witness ==
    /\ last.kind = "extract_temporal_symmetries"
    /\ last.result.kind = "Ok"
    /\ Len(last.result.value) = 2
    /\ last.result.value[1].period_days = 3
    /\ last.result.value[2].period_days = 2
    /\ FGt(last.result.value[1].strength, last.result.value[2].strength)

\* C12: an initialized engine given fewer than 3 x max_cycle_period points returns
\* success with an empty collection.
C12_ShortSeriesYieldsNothing ==
    (/\ last.kind = "extract_temporal_symmetries"
     /\ engine.initialized
     /\ Len(last.data) < 3 * engine.config.max_cycle_period) =>
        /\ last.result.kind = "Ok"
        /\ last.result.value = <<>>

(***************************************************************************)
(* The ranges of the emitted confidences, strengths and periods            *)
(***************************************************************************)
\* PatternRecognizer::detect_cycles: the same two cycles for every series.
detect_cycles ==
    << [name |-> "Weekly Cycle", period |-> 7, confidence |-> Rat(85, 100),
        amplitude |-> Rat(1, 100), phase |-> Zero],
       [name |-> "Monthly Cycle", period |-> 30, confidence |-> Rat(78, 100),
        amplitude |-> Rat(25, 1000), phase |-> Rat(157, 100)] >>

InUnitInterval(x) == FGe(x, Zero) /\ FLe(x, One)

SymmetriesInRange(symmetries) ==
    \A i \in 1 .. Len(symmetries) :
        /\ InUnitInterval(symmetries[i].strength)
        /\ InUnitInterval(symmetries[i].confidence)
        /\ symmetries[i].period_days >= 1

\* C13: every TemporalSymmetry the engine or the extrapolator emits has strength and
\* confidence in [0, 1] and period_days >= 1; every HiddenCycle, every returned or
\* stored DetectedAnomaly and every generated point has its confidence in [0, 1].
C13_EmittedValuesInRange ==
    /\ (last.kind = "extract_temporal_symmetries" /\ last.result.kind = "Ok") =>
            SymmetriesInRange(last.result.value)
    /\ last.kind = "extrapolate_patterns" =>
            SymmetriesInRange(last.result.value.contributing_symmetries)
    /\ \A i \in 1 .. Len(detect_cycles) : InUnitInterval(detect_cycles[i].confidence)
    /\ detector.kind = "Ok" =>
            \A i \in 1 .. Len(detector.anomaly_history) :
                InUnitInterval(detector.anomaly_history[i].confidence)
    /\ last.kind = "detect_anomalies" =>
            \A i \in 1 .. Len(last.result.value) :
                InUnitInterval(last.result.value[i].confidence)
    /\ (last.kind = "generate_future_data" /\ last.result.kind = "Ok") =>
            \A i \in 1 .. Len(last.result.value) :
                InUnitInterval(last.result.value[i].generation_confidence)

(***************************************************************************)
(* anomaly: classify_severity on its own                                   *)
(***************************************************************************)
\* Deviations and baselines: the thresholds themselves, values on both sides of
\* them, and the values no rule excludes (zero, negative, infinite, NaN).
Deviations ==
    {Zero, Rat(1, 20), Rat(1, 10), Rat(1, 5), Rat(3, 10), Rat(1, 2), Rat(3, 5), One,
     Num(2), FNeg(Rat(1, 10)), PInf, NaN}

Baselines == {One, Num(2), Rat(1, 2), Zero, FNeg(One), NaN}

InitSeverity ==
    /\ NewAgent({AgentConfig(PlainRates, 0, 0)})
    /\ first_key = "node_000"
    /\ generator = Absent
    /\ detector = Absent
    /\ engine = Absent
    /\ mdp = Absent
    /\ extrapolator = Absent
    /\ pair = Absent
    /\ steps = 0
    /\ last = NoOp

\* One call of classify_severity; the call before it is kept for comparison.
ClassifySeverity(deviation, baseline) ==
    /\ last' = [kind |-> "classify_severity", deviation |-> deviation,
                baseline |-> baseline,
                result |-> classify_severity(deviation, baseline),
                previous |-> IF last.kind = "classify_severity"
                             THEN [deviation |-> last.deviation,
                                   baseline |-> last.baseline, result |-> last.result]
                             ELSE Absent]
    /\ UNCHANGED <<agent_vars, pipeline_vars, steps>>

NextSeverity ==
    \E deviation \in Deviations, baseline \in Baselines :
        ClassifySeverity(deviation, baseline)

SpecSeverity == InitSeverity /\ [][NextSeverity]_vars

SeverityRank(severity) ==
    CASE severity = "Low" -> 1 [] severity = "Medium" -> 2
      [] severity = "High" -> 3 [] severity = "Critical" -> 4

\* C14: the severity is Low when deviation / baseline < 0.1, Medium when it is
\* < 0.3, High when it is < 0.6 and Critical otherwise; and of two calls with the
\* same positive baseline, the one with the larger deviation never gets the lower
\* severity.
C14_SeverityThresholdsMonotone ==
    last.kind = "classify_severity" =>
        /\ \E ratio \in {FDiv(last.deviation, last.baseline)} :
            last.result = (CASE FLt(ratio, Rat(1, 10)) -> "Low"
                             [] ~FLt(ratio, Rat(1, 10)) /\ FLt(ratio, Rat(3, 10)) -> "Medium"
                             [] ~FLt(ratio, Rat(3, 10)) /\ FLt(ratio, Rat(6, 10)) -> "High"
                             [] OTHER -> "Critical")
        /\ (/\ last.previous # Absent
            /\ last.previous.baseline = last.baseline
            /\ FGt(last.baseline, Zero)
            /\ FLe(last.previous.deviation, last.deviation)) =>
                SeverityRank(last.previous.result) <= SeverityRank(last.result)

\* C14 witness: with the baseline 2 a deviation of 0.6 (ratio exactly 0.3) is High
\* after a deviation of 0.5 was Medium.
C14_Witness ==
    /\ last.kind = "classify_severity"
    /\ last.baseline = Num(2)
    /\ last.deviation = Rat(3, 5)
    /\ last.result = "High"
    /\ last.previous # Absent
    /\ last.previous.baseline = Num(2)
    /\ last.previous.deviation = Rat(1, 2)
    /\ last.previous.result = "Medium"

(***************************************************************************)
(* Repeated runs on the same input                                         *)
(***************************************************************************)
\* C15: a call of extract_temporal_symmetries that directly follows a call on the
\* same series, on the same engine, returns the same value in every field; and the
\* baseline a detector was built with is the one a second computation on the same
\* historical series gives.
C15_RepeatedRunsAgree ==
    /\ (last.kind = "extract_temporal_symmetries" /\ last.previous # Absent) =>
            last.result = last.previous
    /\ (last.kind = "new_detector" /\ detector.kind = "Ok") =>
            detector.baseline_statistics =
                calculate_baseline_statistics(last.historical_data)

(***************************************************************************)
(* anomaly: the history of a detector that has run for a long time         *)
(***************************************************************************)
\* A series of one point: detect_anomalies returns one anomaly for it whenever the
\* first expected symmetry is reported at index 0.
OnePointSeries == <<[SyntheticPoint(One, Rat(9, 10)) EXCEPT !.timestamp = 60]>>

\* The history after n calls of detect_anomalies on OnePointSeries, n <= 1000.
HistoryAfterCalls(det, n) ==
    [ i \in 1 .. n |-> detect_anomalies(det, OnePointSeries)[1] ]

\* A detector built from three historical points that expects one symmetry and has
\* since answered 997 to 1000 calls on a one-point series.
InitDetectorFull ==
    /\ NewAgent({AgentConfig(PlainRates, 0, 0)})
    /\ first_key = "node_000"
    /\ generator = Absent
    /\ engine = Absent
    /\ mdp = Absent
    /\ extrapolator = Absent
    /\ pair = Absent
    /\ steps = 0
    /\ \E historical_data \in { h \in HistoricalSeries : Len(h) = 3 },
          cfg \in { c \in DetectorConfigs : FLe(c.min_anomaly_confidence, One) },
          n \in 997 .. 1000 :
            \E det \in { new_detector(<<[id |-> "sym_a", period_days |-> 1,
                                         strength |-> Rat(1, 2)]>>,
                                      historical_data, cfg) } :
                /\ detector = [det EXCEPT !.anomaly_history = HistoryAfterCalls(det, n)]
                /\ last = [kind |-> "new_detector", historical_data |-> historical_data]

SpecDetectorFull == InitDetectorFull /\ [][NextDetector]_vars

\* C16: the history never holds more than 1000 anomalies, and after a call of
\* detect_anomalies it is the history before the call followed by the returned
\* anomalies, in the order returned, cut down to its last 1000 entries.
C16_HistoryHoldsMostRecent ==
    detector.kind = "Ok" =>
        /\ Len(detector.anomaly_history) <= 1000
        /\ last.kind = "detect_anomalies" =>
            \E all \in {last.before \o last.result.value} :
                detector.anomaly_history =
                    SubSeq(all, IF Len(all) > 1000 THEN Len(all) - 999 ELSE 1, Len(all))

\* C16 witness: a call returns at least two different anomalies to a history that
\* cannot take them all, and the newest returned anomaly is the last of the
\* history while the oldest stored one is gone.
C16_Witness ==
    /\ detector.kind = "Ok"
    /\ last.kind = "detect_anomalies"
    /\ Len(last.result.value) >= 2
    /\ last.result.value[1] # last.result.value[Len(last.result.value)]
    /\ Len(last.before) + Len(last.result.value) > 1000
    /\ Len(detector.anomaly_history) = 1000
    /\ detector.anomaly_history[1000] = last.result.value[Len(last.result.value)]
    /\ detector.anomaly_history[1000 - Len(last.result.value)] = last.before[Len(last.before)]

(***************************************************************************)
(* anomaly: the window handed to the detection rules                       *)
(***************************************************************************)
\* C17: for every point of the series given to detect_anomalies, the window of the
\* rules ends at that point, holds the most recent detection_window_size points
\* (all the points so far when there are fewer), and never holds more than
\* detection_window_size points.
C17_WindowHoldsMostRecent ==
    last.kind = "detect_anomalies" =>
        \A i \in 1 .. Len(last.synthetic_data) :
            \E window \in {detection_window(detector.config, last.synthetic_data, i)} :
                /\ Len(window) <= detector.config.detection_window_size
                /\ window = SubSeq(last.synthetic_data,
                                   i + 1 - Min(i, detector.config.detection_window_size),
                                   i)

(***************************************************************************)
(* multi_currency: CurrencyPairState::process_market_update                *)
(***************************************************************************)
\* AnomalyDetectionConfig::default()
DefaultDetectorConfig ==
    [ sensitivity_threshold |-> Rat(3, 10), detection_window_size |-> 50,
      min_anomaly_confidence |-> Rat(7, 10) ]

\* synthetic_data.iter().rev().take(50): the last points first, 50 at most.
recent_data_of(synthetic_data) ==
    [ i \in 1 .. Min(Len(synthetic_data), 50) |->
        synthetic_data[Len(synthetic_data) + 1 - i] ]

\* recent_anomalies after pushing the anomalies one by one, removing the first
\* whenever more than 100 are held.
RECURSIVE push_recent(_, _)
push_recent(recent_anomalies, anomalies) ==
    IF anomalies = <<>> THEN recent_anomalies
    ELSE LET pushed == Append(recent_anomalies, Head(anomalies))
         IN  push_recent(IF Len(pushed) > 100 THEN Tail(pushed) ELSE pushed,
                         Tail(anomalies))

\* Historical series of a pair: two equal closes, and the closes 2, 4, 5.
PairHistories ==
    { <<[timestamp |-> 0, close |-> One], [timestamp |-> 1440, close |-> One]>> }
    \cup { h \in HistoricalSeries : Len(h) = 3 }

\* The symmetries the engine found for the pair: none, or one of period 2.
PairSymmetries ==
    { <<>>, <<[id |-> "symmetry_0", period_days |-> 2, strength |-> One]>> }

\* The synthetic series of an initialized pair: one day from Thursday 00:00 after
\* the last historical close, every noise draw being 0; a resolution of 160
\* minutes gives 9 points, 144 gives 10, 120 gives 12 and 96 gives 15, all of them
\* below the 50 points that recent_data_of keeps.
PairSyntheticData(historical_data, resolution_minutes) ==
    generate_from([future_horizon_days |-> 1, resolution_minutes |-> resolution_minutes,
                   noise_level |-> Rat(1, 10)],
                  1440 \div resolution_minutes, 0, 0,
                  historical_data[Len(historical_data)].close, <<Zero>>, <<>>)

\* A pair after new (inactive, no data, a detector built from an empty series) or
\* after initialize (active, with generated data and a detector built from the
\* historical series, both with the default configuration).
InitPair ==
    /\ NewAgent({AgentConfig(PlainRates, 0, 0), AgentConfig(AttentiveRates, 0, 0)})
    /\ first_key = "node_000"
    /\ generator = Absent
    /\ engine = Absent
    /\ mdp = Absent
    /\ extrapolator = Absent
    /\ steps = 0
    /\ last = NoOp
    /\ \/ /\ detector = new_detector(<<>>, <<>>, DefaultDetectorConfig)
          /\ pair = [kind |-> "Ok", is_active |-> FALSE, synthetic_data |-> <<>>,
                     recent_anomalies |-> <<>>, anomalies_detected |-> 0]
       \/ \E historical_data \in PairHistories, symmetries \in PairSymmetries,
             resolution_minutes \in {160, 144, 120, 96} :
            /\ detector = new_detector(symmetries, historical_data, DefaultDetectorConfig)
            /\ pair = [kind |-> "Ok", is_active |-> TRUE,
                       synthetic_data |->
                            PairSyntheticData(historical_data, resolution_minutes),
                       recent_anomalies |-> <<>>, anomalies_detected |-> 0]

\* process_market_update: an inactive pair and a pair with fewer than 10 synthetic
\* points return no action; otherwise the recent data goes to detect_anomalies and
\* every anomaly is counted, remembered and answered with choose_action, whose
\* random draws are rand1 and rand2 for every anomaly of the call.
ProcessMarketUpdate(rand1, rand2) ==
    /\ steps < MaxDetections
    /\ steps' = steps + 1
    /\ IF ~pair.is_active \/ Len(pair.synthetic_data) < 10
       THEN /\ last' = [kind |-> "process_market_update", recent_data |-> Absent,
                        result |-> [kind |-> "Ok", value |-> <<>>]]
            /\ UNCHANGED <<detector, pair>>
       ELSE \E recent_data \in {recent_data_of(pair.synthetic_data)} :
            \E anomalies \in {detect_anomalies(detector, recent_data)} :
                /\ detector' = [detector EXCEPT
                                    !.anomaly_history = push_history(@, anomalies)]
                /\ pair' = [pair EXCEPT
                                !.anomalies_detected = @ + Len(anomalies),
                                !.recent_anomalies = push_recent(@, anomalies)]
                /\ last' = [kind |-> "process_market_update",
                            recent_data |-> recent_data,
                            anomalies |-> anomalies,
                            result |->
                                [kind |-> "Ok",
                                 value |-> [ i \in 1 .. Len(anomalies) |->
                                    choose_action(q_table, config, first_key, "EURUSD_0",
                                                  anomalies[i], rand1, rand2) ]]]
    /\ UNCHANGED <<agent_vars, generator, engine, mdp, extrapolator>>

NextPair == \E rand1 \in RandDraws, rand2 \in RandDraws : ProcessMarketUpdate(rand1, rand2)

SpecPair == InitPair /\ [][NextPair]_vars

\* C18: the anomalies detect_anomalies returns follow the order of the points it
\* was given, and every series process_market_update hands to detect_anomalies is
\* in ascending timestamp order.
C18_PointsInTimestampOrder ==
    /\ last.kind = "detect_anomalies" =>
            \A i \in 1 .. (Len(last.result.value) - 1) :
                last.result.value[i].timestamp <= last.result.value[i + 1].timestamp
    /\ (last.kind = "process_market_update" /\ last.recent_data # Absent) =>
            \A i \in 1 .. (Len(last.recent_data) - 1) :
                last.recent_data[i].timestamp <= last.recent_data[i + 1].timestamp

(***************************************************************************)
(* C19: the next-state term of update_q_value                              *)
(***************************************************************************)
\* The values stored for the entries of a state.
StoredValues(q, state) == { q[k] : k \in { x \in DOMAIN q : x.state_id = state } }

\* The next-state term as described: 0 when done or when nothing is stored for
\* next_state, otherwise the largest stored value of next_state.
ClaimedNextMax(q, next_state, done) ==
    IF done \/ StoredValues(q, next_state) = {} THEN Zero
    ELSE CHOOSE v \in StoredValues(q, next_state) :
            \A w \in StoredValues(q, next_state) : FLe(w, v)

\* C19: with done = false update_q_value uses the maximum stored Q-value of
\* next_state as its next-state term, 0 when next_state has no stored entry, and
\* 0 when done = true: the value it stores is the one that term gives.
C19_NextStateTermIsStoredMaximum ==
    last.kind = "update_q_value" =>
        LET e      == last.experience
            before == last.before
            key    == StateActionPair(e.state, e.action)
            old_q  == IF key \in DOMAIN before.q_table THEN before.q_table[key] ELSE Zero
        IN  /\ next_q_max(before.q_table, e.next_state, e.done)
                    = ClaimedNextMax(before.q_table, e.next_state, e.done)
            /\ q_table[key] = ClaimedNewQ(before.config, first_key, e, old_q,
                                  ClaimedNextMax(before.q_table, e.next_state, e.done))

(***************************************************************************)
(* C20: the greedy branch of choose_action                                 *)
(***************************************************************************)
\* The attention-weighted Q-value of a candidate, an unseen pair counting as 0.
WeightedQ(q, cfg, first, state_id, action) ==
    FMul(IF StateActionPair(state_id, action) \in DOMAIN q
         THEN q[StateActionPair(state_id, action)] ELSE Zero,
         FAdd(One, FMul(cfg.attention_weight, compute_laplacian_attention(state_id, first))))

\* The candidates whose weighted value no other candidate exceeds.
MaximalCandidates(q, cfg, first, state_id, actions) ==
    { j \in 1 .. Len(actions) :
        \A i \in 1 .. Len(actions) :
            FLe(WeightedQ(q, cfg, first, state_id, actions[i]),
                WeightedQ(q, cfg, first, state_id, actions[j])) }

\* C20: when choose_action does not explore, it returns the candidate with the
\* largest attention-weighted Q-value, the first one in candidate order among equal
\* maxima, and Hold when nothing is stored for the state.
C20_GreedyChoiceIsFirstMaximum ==
    (last.kind = "choose_action" /\ ~last.explored) =>
        LET actions == get_possible_actions(last.anomaly)
            maximal == MaximalCandidates(q_table, config, first_key, last.state_id, actions)
        IN  /\ maximal # {}
            /\ \E j \in maximal :
                    /\ \A i \in maximal : j <= i
                    /\ last.result = actions[j]
            /\ StoredValues(q_table, last.state_id) = {} => last.result = Hold

\* C20 witness: a greedy choice for a state whose stored Hold value is negative, so
\* that the two unseen candidates after Hold tie at the maximum 0 and the first of
\* them is returned.
C20_Witness ==
    /\ last.kind = "choose_action"
    /\ ~last.explored
    /\ StateActionPair(last.state_id, Hold) \in DOMAIN q_table
    /\ FLt(q_table[StateActionPair(last.state_id, Hold)], Zero)
    /\ get_possible_actions(last.anomaly) = <<Hold, Buy(10), Sell(10)>>
    /\ Cardinality(MaximalCandidates(q_table, config, first_key, last.state_id,
                                     get_possible_actions(last.anomaly))) = 2
    /\ last.result = Buy(10)

(***************************************************************************)
(* C21: the symmetry rule reports the first matching expected symmetry     *)
(***************************************************************************)
\* The two conditions of the symmetry rule for one expected symmetry on a window.
SymmetryMatches(det, expected_symmetry, window_data) ==
    /\ FGt(FAbs(FSub(expected_symmetry.strength,
                     calculate_actual_symmetry_strength(det, expected_symmetry,
                                                        window_data))),
           FMul(det.config.sensitivity_threshold, expected_symmetry.strength))
    /\ FGe(FMin(FDiv(FAbs(FSub(expected_symmetry.strength,
                               calculate_actual_symmetry_strength(det, expected_symmetry,
                                                                  window_data))),
                     expected_symmetry.strength),
                One),
           det.config.min_anomaly_confidence)

\* The expected symmetries, by position, that match at the i-th point.
MatchingSymmetries(det, synthetic_data, i) ==
    { j \in 1 .. Len(det.expected_symmetries) :
        SymmetryMatches(det, det.expected_symmetries[j],
                        detection_window(det.config, synthetic_data, i)) }

\* The returned anomalies of the given type, by position, that belong to the i-th
\* point (the points of a series have distinct timestamps).
ReportedAt(anomalies, synthetic_data, i, type) ==
    { k \in 1 .. Len(anomalies) :
        /\ anomalies[k].anomaly_type = type
        /\ anomalies[k].timestamp = synthetic_data[i].timestamp }

\* C21: for every evaluated point detect_anomalies returns at most one
\* SymmetryBreakdown: none when no expected symmetry matches, otherwise the one of
\* the first matching symmetry in list order, whatever matches after it.
C21_FirstMatchingSymmetryOnly ==
    last.kind = "detect_anomalies" =>
        \A i \in 1 .. Len(last.synthetic_data) :
            /\ Cardinality(ReportedAt(last.result.value, last.synthetic_data, i,
                                      "SymmetryBreakdown")) <= 1
            /\ MatchingSymmetries(detector, last.synthetic_data, i) = {} =>
                    ReportedAt(last.result.value, last.synthetic_data, i,
                               "SymmetryBreakdown") = {}
            /\ \A j \in MatchingSymmetries(detector, last.synthetic_data, i) :
                    (\A m \in MatchingSymmetries(detector, last.synthetic_data, i) : j <= m)
                    => \E k \in ReportedAt(last.result.value, last.synthetic_data, i,
                                           "SymmetryBreakdown") :
                            last.result.value[k].symmetry_id
                                = detector.expected_symmetries[j].id

\* C21 witness: a point at which both expected symmetries match and the anomaly of
\* the first one is the only SymmetryBreakdown returned for it.
C21_Witness ==
    /\ last.kind = "detect_anomalies"
    /\ \E i \in 1 .. Len(last.synthetic_data) :
            /\ MatchingSymmetries(detector, last.synthetic_data, i) = {1, 2}
            /\ \E k \in ReportedAt(last.result.value, last.synthetic_data, i,
                                   "SymmetryBreakdown") :
                    last.result.value[k].symmetry_id = detector.expected_symmetries[1].id

(***************************************************************************)
(* C22: the trading signal of a symmetry anomaly                           *)
(***************************************************************************)
\* The signal type the strength ratio calls for, "None" standing for no signal.
ClaimedSymmetrySignal(anomaly) ==
    IF FLt(FDiv(anomaly.actual_strength, anomaly.expected_strength), Rat(1, 2)) THEN "Sell"
    ELSE IF FGt(FDiv(anomaly.actual_strength, anomaly.expected_strength), Rat(3, 2))
         THEN "Buy"
         ELSE "None"

\* The signal type an anomaly carries, "None" when it carries no signal.
SignalTypeOf(anomaly) ==
    IF anomaly.trading_signal = Absent THEN "None" ELSE anomaly.trading_signal.signal_type

\* C22: a returned SymmetryBreakdown carries a Sell signal when actual / expected
\* strength is below 0.5, a Buy signal when it is above 1.5 and no signal
\* otherwise; it never carries a Hold signal.
C22_SymmetrySignalFollowsRatio ==
    last.kind = "detect_anomalies" =>
        \A k \in 1 .. Len(last.result.value) :
            last.result.value[k].anomaly_type = "SymmetryBreakdown" =>
                /\ SignalTypeOf(last.result.value[k])
                        = ClaimedSymmetrySignal(last.result.value[k])
                /\ SignalTypeOf(last.result.value[k]) # "Hold"

\* C22 witness: one call returns a SymmetryBreakdown without a signal (actual
\* strength 1 against an expected 0.7) after one with a Sell signal.
C22_Witness ==
    /\ last.kind = "detect_anomalies"
    /\ \E k \in 1 .. Len(last.result.value) :
            /\ last.result.value[k].anomaly_type = "SymmetryBreakdown"
            /\ last.result.value[k].trading_signal = Absent
            /\ FGt(last.result.value[k].actual_strength, Zero)
    /\ \E k \in 1 .. Len(last.result.value) :
            /\ last.result.value[k].anomaly_type = "SymmetryBreakdown"
            /\ SignalTypeOf(last.result.value[k]) = "Sell"

(***************************************************************************)
(* C23: the rules that report nothing                                      *)
(***************************************************************************)
\* C23: every anomaly detect_anomalies returns and every anomaly of the history is
\* a SymmetryBreakdown or a VolatilitySpike, the rules for cycles, pattern
\* inversions and novel patterns reporting nothing, and a point has at most one
\* anomaly of each of the two types.
C23_OnlySymmetryAndVolatility ==
    detector.kind = "Ok" =>
        /\ \A k \in 1 .. Len(detector.anomaly_history) :
                detector.anomaly_history[k].anomaly_type
                    \in {"SymmetryBreakdown", "VolatilitySpike"}
        /\ last.kind = "detect_anomalies" =>
            /\ \A k \in 1 .. Len(last.result.value) :
                    last.result.value[k].anomaly_type
                        \in {"SymmetryBreakdown", "VolatilitySpike"}
            /\ \A i \in 1 .. Len(last.synthetic_data) :
                    /\ Cardinality(ReportedAt(last.result.value, last.synthetic_data, i,
                                              "SymmetryBreakdown")) <= 1
                    /\ Cardinality(ReportedAt(last.result.value, last.synthetic_data, i,
                                              "VolatilitySpike")) <= 1
                    /\ detect_cycle_anomaly(detector, last.synthetic_data[i],
                            detection_window(detector.config, last.synthetic_data, i))
                        = Absent
                    /\ detect_pattern_inversion(detector, last.synthetic_data[i],
                            detection_window(detector.config, last.synthetic_data, i))
                        = Absent
                    /\ detect_novel_pattern(detector, last.synthetic_data[i],
                            detection_window(detector.config, last.synthetic_data, i))
                        = Absent

\* C23 witness: a point for which both a SymmetryBreakdown and a VolatilitySpike
\* are returned, next to a history of earlier anomalies.
C23_Witness ==
    /\ last.kind = "detect_anomalies"
    /\ last.before # <<>>
    /\ \E i \in 1 .. Len(last.synthetic_data) :
            /\ ReportedAt(last.result.value, last.synthetic_data, i,
                          "SymmetryBreakdown") # {}
            /\ ReportedAt(last.result.value, last.synthetic_data, i,
                          "VolatilitySpike") # {}

(***************************************************************************)
(* anomaly: get_anomaly_statistics                                         *)
(***************************************************************************)
\* The entries of a counting HashMap: the names that occur, each with its count.
CountBy(anomaly_history, field) ==
    [ name \in { anomaly_history[k][field] : k \in 1 .. Len(anomaly_history) } |->
        Cardinality({ k \in 1 .. Len(anomaly_history) :
                        anomaly_history[k][field] = name }) ]

\* get_anomaly_statistics: the counts, and the sum of the confidences divided by
\* total_anomalies as f64.
get_anomaly_statistics(det) ==
    [ total_anomalies |-> Len(det.anomaly_history),
      type_distribution |-> CountBy(det.anomaly_history, "anomaly_type"),
      severity_distribution |-> CountBy(det.anomaly_history, "severity"),
      average_confidence |->
        FDiv(FSum([k \in 1 .. Len(det.anomaly_history) |->
                        det.anomaly_history[k].confidence]),
             Num(Len(det.anomaly_history))) ]

\* get_anomaly_statistics reads the detector and changes nothing.
GetAnomalyStatistics ==
    /\ detector.kind = "Ok"
    /\ last' = [kind |-> "get_anomaly_statistics",
                result |-> get_anomaly_statistics(detector)]
    /\ UNCHANGED <<agent_vars, pipeline_vars, steps>>

NextDetectorStatistics ==
    \/ \E synthetic_data \in SeriesInputs : DetectAnomalies(synthetic_data)
    \/ GetAnomalyStatistics

SpecDetectorStatistics == InitDetector /\ [][NextDetectorStatistics]_vars

\* C24: no computation of the detector divides by zero: the average confidence of
\* get_anomaly_statistics is a finite number, the empty history included, and no
\* anomaly is reported from a division by an expected strength of 0 or by a
\* baseline volatility or deviation of 0.
C24_NoDivisionByZero ==
    /\ last.kind = "get_anomaly_statistics" =>
            /\ IsNum(last.result.average_confidence)
            /\ last.result.total_anomalies = Len(detector.anomaly_history)
    /\ last.kind = "detect_anomalies" =>
            \A k \in 1 .. Len(last.result.value) :
                /\ last.result.value[k].anomaly_type = "SymmetryBreakdown" =>
                        last.result.value[k].expected_strength # Zero
                /\ last.result.value[k].anomaly_type = "VolatilitySpike" =>
                        /\ last.result.value[k].expected_volatility # Zero
                        /\ detector.baseline_statistics.volatility_std_dev # Zero

(***************************************************************************)
(* anomaly: the correlation matrix of a long historical series             *)
(***************************************************************************)
\* Daily points over the given number of days, the last day coming last_gap days
\* after the one before it; the matrix reads the timestamps only.
LongHistory(days, last_gap) ==
    [ k \in 1 .. days |->
        [ timestamp |-> 1440 * (IF k = days THEN k - 2 + last_gap ELSE k - 1),
          close |-> One ] ]

\* Series around the 100 points that the correlation matrix is built from.
LongHistories ==
    { LongHistory(days, last_gap) : days \in 95 .. 105, last_gap \in 1 .. 10 }

\* No matrix has been built yet.
InitBaseline ==
    /\ NewAgent({AgentConfig(PlainRates, 0, 0)})
    /\ first_key = "node_000"
    /\ generator = Absent
    /\ detector = Absent
    /\ engine = Absent
    /\ mdp = Absent
    /\ extrapolator = Absent
    /\ pair = Absent
    /\ steps = 0
    /\ last = NoOp

\* The matrix that calculate_baseline_statistics builds for a historical series,
\* once per behaviour.
BuildCorrelationMatrix(historical_data) ==
    /\ last = NoOp
    /\ last' = [kind |-> "temporal_correlation_matrix",
                historical_data |-> historical_data,
                result |-> temporal_correlation_matrix(historical_data)]
    /\ UNCHANGED <<agent_vars, pipeline_vars, steps>>

NextBaseline == \E historical_data \in LongHistories : BuildCorrelationMatrix(historical_data)

SpecBaseline == InitBaseline /\ [][NextBaseline]_vars

\* The decaying correlation of two historical points: 1 / (1 + seconds / 86400).
PointCorrelation(a, b) ==
    FDiv(One, FAdd(One, FDiv(Num(60 * Abs(a.timestamp - b.timestamp)), Num(86400))))

\* C25: the temporal correlation matrix of the baseline is n x n with
\* n = min(len(historical), 100), and its entries are the correlations of the
\* most recent n points of the historical series.
C25_MatrixOfMostRecentPoints ==
    last.kind = "temporal_correlation_matrix" =>
        \E n \in {Min(Len(last.historical_data), 100)} :
            /\ Len(last.result) = n
            /\ \A i \in 1 .. n :
                /\ Len(last.result[i]) = n
                /\ \A j \in 1 .. n :
                    last.result[i][j]
                        = PointCorrelation(
                            last.historical_data[Len(last.historical_data) - n + i],
                            last.historical_data[Len(last.historical_data) - n + j])

(***************************************************************************)
(* C26: the symmetry types the engine emits and the generator recognises   *)
(***************************************************************************)
\* calculate_symmetry_correction, the arm of its match on symmetry_type that a type
\* selects: one of the three named arms, or the arm _ => 0.0.
correction_arm(symmetry_type) ==
    CASE symmetry_type = "Mirror"     -> "Mirror"
      [] symmetry_type = "Rotational" -> "Rotational"
      [] symmetry_type = "Cyclic"     -> "Cyclic"
      [] OTHER                        -> "zero"

\* C26: every symmetry extract_temporal_symmetries returns has a symmetry_type of
\* Mirror, Rotational or Cyclic, so that the generator's correction for it is one
\* of the three type-specific ones and never the 0 of an unrecognised type.
C26_SymmetryTypeIsRecognised ==
    (last.kind = "extract_temporal_symmetries" /\ last.result.kind = "Ok") =>
        \A k \in 1 .. Len(last.result.value) :
            /\ last.result.value[k].symmetry_type \in {"Mirror", "Rotational", "Cyclic"}
            /\ correction_arm(last.result.value[k].symmetry_type) # "zero"

(***************************************************************************)
(* C27: a window no longer than the period                                 *)
(***************************************************************************)
\* The anomaly the claim describes for an expected symmetry: its breakdown to a
\* strength of 0, with confidence 1, severity Critical and a Sell signal.
IsFullBreakdownOf(anomaly, expected_symmetry) ==
    /\ anomaly.anomaly_type = "SymmetryBreakdown"
    /\ anomaly.symmetry_id = expected_symmetry.id
    /\ anomaly.actual_strength = Zero
    /\ anomaly.confidence = One
    /\ anomaly.severity = "Critical"
    /\ SignalTypeOf(anomaly) = "Sell"

C28_ConfidentBreakdownHasSignal ==
    (/\ last.kind = "detect_anomalies"
     /\ FGt(detector.config.min_anomaly_confidence, Rat(1, 2))) =>
        \A k \in 1 .. Len(last.result.value) :
            last.result.value[k].anomaly_type = "SymmetryBreakdown" =>
                /\ last.result.value[k].trading_signal # Absent
                /\ last.result.value[k].trading_signal.signal_type \in {"Sell", "Buy"}

\* C28 witness: with a minimum of 0.7 one call returns a SymmetryBreakdown with a
\* Sell signal and one with a Buy signal, for an expected strength above 0.
C28_Witness ==
    /\ last.kind = "detect_anomalies"
    /\ detector.config.min_anomaly_confidence = Rat(7, 10)
    /\ \E k \in 1 .. Len(last.result.value) :
            /\ last.result.value[k].anomaly_type = "SymmetryBreakdown"
            /\ SignalTypeOf(last.result.value[k]) = "Buy"
            /\ FGt(last.result.value[k].expected_strength, Zero)
    /\ \E k \in 1 .. Len(last.result.value) :
            /\ last.result.value[k].anomaly_type = "SymmetryBreakdown"
            /\ SignalTypeOf(last.result.value[k]) = "Sell"
            /\ FGt(last.result.value[k].expected_strength, Zero)

(***************************************************************************)
(* C29: the Laplacian attention is the same for every state                *)
(***************************************************************************)
\* The value update_q_value stores when the attention of every state is 1.
NewQWithUnitAttention(cfg, e, old_q, next_max) ==
    FAdd(old_q,
         FMul(FMul(cfg.learning_rate, FAdd(One, cfg.attention_weight)),
              FSub(FAdd(FAdd(e.reward, FMul(cfg.discount_factor, next_max)),
                        compute_pme_correction(e.action)),
                   old_q)))

\* The candidates that are maximal when every stored value is weighted by
\* 1 + attention_weight.
MaximalWithUnitAttention(q, cfg, state_id, actions) ==
    { j \in 1 .. Len(actions) :
        \A i \in 1 .. Len(actions) :
            FLe(FMul(q_get(q, StateActionPair(state_id, actions[i])),
                     FAdd(One, cfg.attention_weight)),
                FMul(q_get(q, StateActionPair(state_id, actions[j])),
                     FAdd(One, cfg.attention_weight))) }

PricesOrdered(cfg, point) ==
    /\ FLe(point.low, point.open)
    /\ FLe(point.open, point.high)
    /\ (FLe(Zero, cfg.noise_level) /\ FLe(cfg.noise_level, Rat(6, 10))) =>
            (FLe(point.low, point.close) /\ FLe(point.close, point.high))

====
